---------------------------- MODULE Spec2Model ----------------------------
(***************************************************************************)
(* A model of the browser-side EV charging dashboard:                      *)
(*   - map.js                status classification, HTML fragments,        *)
(*                           the in-memory station list                    *)
(*   - unnamed/part_001      the API client (API.request and its wrappers) *)
(*                           and the built-in demo datasets                *)
(*   - unnamed/part_000      Auth (login, storage keys 'token' and 'user') *)
(*   - main.js               the user dashboard's list fragments, its page *)
(*                           load and its refresh timer                    *)
(*   - owner-dashboard.js    the owner dashboard's page load and loads     *)
(*                                                                         *)
(* The specifications share the variables:                                 *)
(*   SpecStatus     applies getChargerStatus to one station record         *)
(*   SpecHtml       renders one station record into each HTML fragment     *)
(*   Spec           the API client, its callers and the session storage;   *)
(*   FairSpec       is Spec with the fairness the event loop guarantees    *)
(*   SpecSession    login, registration, logout and the session storage    *)
(*   SpecDashboard  the user dashboard from DOMContentLoaded on            *)
(*   SpecOwner      the owner dashboard from DOMContentLoaded on           *)
(*   SpecActions    the handlers that change server data, loaded page     *)
(*   SpecOwnerActions  the owner dashboard loading while a form is sent   *)
(*   SpecMap        initMap, renderChargersOnMap and renderChargersList   *)
(*   SpecOverlap    two executions of loadChargers at the same time       *)
(***************************************************************************)
EXTENDS Integers, Sequences, FiniteSets, TLC

VARIABLES
    station,         \* SpecStatus: the record handed to getChargerStatus
    classification,  \* SpecStatus: what getChargerStatus returned
    rec,             \* SpecHtml: the station record being rendered
    fragment,        \* SpecHtml: the HTML fragment generated from rec
    token,           \* localStorage key 'token'
    user,            \* localStorage key 'user' (the stored user's role)
    page,            \* the page whose scripts are running
    href,            \* the last value assigned to window.location.href
    alert,           \* the last alert() shown
    chargers,        \* map.js: let chargers (a reference to an array)
    demoChargers,    \* the contents of the array object DEMO_CHARGERS
    demoLeaderboard, \* the contents of the array object DEMO_LEADERBOARD
    leaderboard,     \* what loadLeaderboard last rendered
    calls,           \* the asynchronous operations in flight
    dash,            \* main.js: the DOMContentLoaded handler and its timer
    owner,           \* owner-dashboard.js: its handler, loads and figures
    act,             \* the click or submit handler in progress, if any
    view,            \* map.js: let map, let markers, and the map's view
    hist             \* SpecOverlap: the station loads in their issue order

vars == <<station, classification, rec, fragment, token, user, page, href,
          alert, chargers, demoChargers, demoLeaderboard, leaderboard, calls,
          dash, owner, act, view, hist>>

statusVars == <<station, classification>>
htmlVars == <<rec, fragment>>
loadVars == <<dash, owner>>
sideVars == <<act, view, hist>>
pageVars == <<token, user, page, href, alert, chargers, demoChargers,
              demoLeaderboard, leaderboard, calls, loadVars, sideVars>>

\* An absent storage key, a null, an unset variable.
None == "none"

-----------------------------------------------------------------------------
(* Bounds *)

\* Slot counts range over 0..MaxSlots.
MaxSlots == 7

\* Station text fields are strings of at most MaxLen characters.
MaxLen == 1

\* The number of asynchronous operations that can be in flight together.
MaxCalls == 2

-----------------------------------------------------------------------------
(* The built-in demo datasets (unnamed/part_001, lines 5-44) *)

DEMO_CHARGERS ==
    << [id |-> "demo-1", name |-> "Oxford Street Hub",
        totalSlots |-> 8, availableSlots |-> 6],
       [id |-> "demo-2", name |-> "Tower Bridge Plaza",
        totalSlots |-> 6, availableSlots |-> 2],
       [id |-> "demo-3", name |-> "Green Park Station",
        totalSlots |-> 4, availableSlots |-> 1] >>

DEMO_LEADERBOARD ==
    << [id |-> "u1", name |-> "John Smith", greenScore |-> 175],
       [id |-> "u2", name |-> "Sarah Johnson", greenScore |-> 150] >>

-----------------------------------------------------------------------------
(* Status classification (map.js, lines 15-23) *)

\* Math.ceil(totalSlots * 0.3). In IEEE doubles n * 0.3 never rounds above
\* the next integer for the slot counts of the model (6 * 0.3 is
\* 1.7999999999999998, 10 * 0.3 is 3.0), so the result is the exact ceiling
\* of 3n/10.
CeilThreshold(totalSlots) == (3 * totalSlots + 9) \div 10

\* A variant with `<=' in place of `<' in the second comparison.
getChargerStatus_le(charger) ==
    IF charger.availableSlots = 0 THEN "busy"
    ELSE IF charger.availableSlots <= CeilThreshold(charger.totalSlots)
         THEN "limited"
    ELSE "available"

\* A variant whose last branch tests availableSlots <= totalSlots and
\* falls off the end (undefined) otherwise.
getChargerStatus_partial(charger) ==
    IF charger.availableSlots = 0 THEN "busy"
    ELSE IF charger.availableSlots < CeilThreshold(charger.totalSlots)
         THEN "limited"
    ELSE IF charger.availableSlots <= charger.totalSlots THEN "available"
    ELSE "undefined"

getChargerStatus(charger) ==
    IF charger.availableSlots = 0 THEN "busy"
    ELSE IF charger.availableSlots < CeilThreshold(charger.totalSlots)
         THEN "limited"
    ELSE "available"

\* The records getChargerStatus is applied to: every pair of slot counts in
\* 0..MaxSlots (availableSlots may exceed totalSlots), and the demo stations.
SlotRecords ==
    [availableSlots : 0..MaxSlots, totalSlots : 0..MaxSlots]
    \cup { [availableSlots |-> DEMO_CHARGERS[i].availableSlots,
            totalSlots |-> DEMO_CHARGERS[i].totalSlots] : i \in 1..3 }

\* One call of getChargerStatus on the station record.
Classify ==
    /\ classification = None
    /\ classification' = getChargerStatus(station)
    /\ UNCHANGED <<station, htmlVars, pageVars>>

-----------------------------------------------------------------------------
(* HTML fragments (map.js 277-372, 375-423; main.js 205-244, 290-333) *)

\* A string is a sequence of one-character strings. The generated HTML is a
\* sequence of tokens: a character, or a whole entity such as "&lt;".
Chars == {"a", "<", ">", "&", "\"", "'"}

RECURSIVE TextsUpTo(_)
TextsUpTo(n) ==
    IF n = 0 THEN {<<>>}
    ELSE LET shorter == TextsUpTo(n - 1)
         IN  shorter \cup { Append(t, c) : t \in shorter, c \in Chars }

Texts == TextsUpTo(MaxLen)

\* The characters the HTML parser gives a meaning to.
Special == {"<", ">", "&", "\""}

\* A JavaScript string is truthy unless empty; an absent (undefined) field is
\* falsy too, and is modelled by the empty string: `x ? .. : ..' and
\* `x || d' treat the two alike.
Truthy(text) == text # <<>>

OrElse(text, default) == IF Truthy(text) THEN text ELSE default

\* escapeHtml: div.textContent = text; return div.innerHTML. Serialising a
\* text node replaces & < > by entities and leaves quotes as they are.
escapeHtml(text) ==
    [i \in 1..Len(text) |->
        CASE text[i] = "&" -> "&amp;"
          [] text[i] = "<" -> "&lt;"
          [] text[i] = ">" -> "&gt;"
          [] OTHER -> text[i]]

\* JSON.stringify of a string: the enclosing quotes, `"' written as `\"'.
RECURSIVE JsonChars(_)
JsonChars(text) ==
    IF text = <<>> THEN <<>>
    ELSE (IF Head(text) = "\"" THEN <<"\\", "\"">> ELSE <<Head(text)>>)
         \o JsonChars(Tail(text))

JsonString(text) == <<"\"">> \o JsonChars(text) \o <<"\"">>

\* .replace(/"/g, '&quot;')
ReplaceQuot(text) ==
    [i \in 1..Len(text) |-> IF text[i] = "\"" THEN "&quot;" ELSE text[i]]

\* One interpolation `${...}' of a template literal: the station field it
\* comes from, whether it lands in element text or in an attribute value, and
\* the tokens inserted.
Piece(src, ctx, text) == [src |-> src, ctx |-> ctx, text |-> text]

When(cond, pieces) == IF cond THEN pieces ELSE <<>>

statusLabel(status) ==
    CASE status = "available" -> <<"Available">>
      [] status = "limited" -> <<"Limited">>
      [] status = "busy" -> <<"Busy">>
      [] OTHER -> <<"undefined">>

\* createMarkerPopup (map.js 277-326)
createMarkerPopup(charger, status) ==
    << Piece("name", "text", escapeHtml(charger.name)),
       Piece("status", "text", statusLabel(status)) >>
    \o When(Truthy(charger.address),
            << Piece("address", "text", escapeHtml(charger.address)) >>)
    \o When(Truthy(charger.description),
            << Piece("description", "text", escapeHtml(charger.description)) >>)

\* One card of renderChargersList (map.js 341-369). The onclick attribute
\* holds JSON.stringify(charger) with its double quotes replaced.
renderChargerCard(charger) ==
    << Piece("name", "attr", ReplaceQuot(JsonString(charger.name))) >>
    \o When(Truthy(charger.address),
            << Piece("address", "attr",
                     ReplaceQuot(JsonString(charger.address))) >>)
    \o When(Truthy(charger.description),
            << Piece("description", "attr",
                     ReplaceQuot(JsonString(charger.description))) >>)
    \o << Piece("name", "text", escapeHtml(charger.name)),
          Piece("address", "text",
                escapeHtml(OrElse(charger.address, <<"No address">>))),
          Piece("status", "text", statusLabel(getChargerStatus(charger))) >>

\* The modal body of showChargerDetail (map.js 393-413). The title is set
\* through textContent and is no HTML.
showChargerDetail(charger) ==
    << Piece("status", "text", statusLabel(getChargerStatus(charger))),
       Piece("address", "text",
             escapeHtml(OrElse(charger.address, <<"N/A">>))) >>
    \o When(Truthy(charger.description),
            << Piece("description", "text", escapeHtml(charger.description)) >>)

\* One item of loadRecentSessions (main.js 218-236); charger is b.chargerId.
recentSessionItem(charger) ==
    << Piece("name", "text", OrElse(charger.name, <<"Unknown">>)),
       Piece("address", "text", OrElse(charger.address, <<>>)) >>

\* One card of showMyBookings (main.js 301-333); charger is booking.chargerId.
myBookingCard(charger) ==
    << Piece("name", "text", OrElse(charger.name, <<"Unknown Charger">>)),
       Piece("address", "text", OrElse(charger.address, <<>>)) >>

\* The station records rendered: every combination of field texts, with slot
\* counts that do not matter to the text.
StationTexts ==
    [name : Texts, address : Texts, description : Texts,
     totalSlots : {6}, availableSlots : {2}]

NoFragment == [kind |-> None, pieces |-> <<>>]

Render(kind, pieces) ==
    /\ fragment = NoFragment
    /\ fragment' = [kind |-> kind, pieces |-> pieces]
    /\ UNCHANGED <<rec, statusVars, pageVars>>

RenderPopup == Render("popup", createMarkerPopup(rec, getChargerStatus(rec)))

RenderCard == Render("card", renderChargerCard(rec))

RenderDetail == Render("detail", showChargerDetail(rec))

RenderSessions == Render("sessions", recentSessionItem(rec))

RenderBookings == Render("bookings", myBookingCard(rec))

-----------------------------------------------------------------------------
(* JSON values and the payloads of the model *)

\* A decoded JSON value: an object with its fields, an array with its items,
\* or null. Every field a payload of the model carries is truthy (a non-empty
\* string, true, an object), so `v.f' is truthy exactly when f is present.
Obj(fields) == [type |-> "object", fields |-> fields, items |-> <<>>]

Arr(items) == [type |-> "array", fields |-> <<>>, items |-> items]

Null == [type |-> "null", fields |-> <<>>, items |-> <<>>]

\* `v.f' is truthy, for v an object or an array (no array has these fields).
Has(v, f) == v.type = "object" /\ f \in DOMAIN v.fields

\* What the catch block of API.request returns (part_001, line 87).
OfflineError(message) == Obj([error |-> message, offline |-> TRUE])

\* err.message of a rejected fetch, of an aborted one, of a failed json().
ErrNetwork == "Failed to fetch"

ErrAborted == "The user aborted a request."

ErrSyntax == "Unexpected token < in JSON"

\* {error: string, offline: true}
IsOfflineShape(v) ==
    /\ v.type = "object"
    /\ DOMAIN v.fields = {"error", "offline"}
    /\ v.fields.error \in {ErrNetwork, ErrAborted, ErrSyntax}
    /\ v.fields.offline = TRUE

\* What the server can put in a response body.
ServerChargers ==
    Arr(<< [id |-> "s1", name |-> "Server Station",
            totalSlots |-> 3, availableSlots |-> 0] >>)

ServerLeaderboard == Arr(<< [id |-> "u9", name |-> "Ann", greenScore |-> 10] >>)

ServerBookings == Arr(<< [id |-> "b1", status |-> "active"] >>)

\* GET /chargers/owner/list: the owner's stations A, B and C.
ServerOwnerChargers ==
    Arr(<< [id |-> "A", totalSlots |-> 4, availableSlots |-> 1],
           [id |-> "B", totalSlots |-> 2, availableSlots |-> 2],
           [id |-> "C", totalSlots |-> 6, availableSlots |-> 4] >>)

\* The owner's stations after one was deleted and one was added.
OwnerChargersOfTwo ==
    Arr(<< [id |-> "A", totalSlots |-> 4, availableSlots |-> 0],
           [id |-> "D", totalSlots |-> 3, availableSlots |-> 3] >>)

\* GET /bookings/charger/:id: a station's bookings.
BookingsOfOne ==
    Arr(<< [id |-> "b1", status |-> "active"],
           [id |-> "b2", status |-> "cancelled"] >>)

BookingsOfTwo ==
    Arr(<< [id |-> "b3", status |-> "cancelled"],
           [id |-> "b4", status |-> "completed"],
           [id |-> "b5", status |-> "active"] >>)

\* The reply to a request that changed something: the record as it is now.
SavedBody == Obj([id |-> "saved"])

ErrorBody == Obj([error |-> "Server error"])

MessageBody == Obj([message |-> "Invalid credentials"])

AuthBody(role) ==
    Obj([token |-> "jwt", user |-> [role |-> role], message |-> "ok"])

TokenOnlyBody == Obj([token |-> "jwt"])

Roles == {"user", "owner"}

\* The HTTP statuses of the model: a success, the authorization failure, and
\* another failure.
Statuses == {200, 401, 500}

Bodies(op) ==
    CASE op = "loadChargers" -> {ServerChargers, ErrorBody, MessageBody, Null}
      [] op = "loadLeaderboard" ->
            {ServerLeaderboard, ErrorBody, MessageBody, Null}
      [] op = "login" ->
            {AuthBody("user"), AuthBody("owner"), TokenOnlyBody, MessageBody,
             Null}
      [] op = "register" ->
            {AuthBody("user"), AuthBody("owner"), TokenOnlyBody, MessageBody,
             Null}
      [] op \in {"getUserBookings", "getUserBookingRequests",
                  "getOwnerBookingRequests"} ->
            {ServerBookings, MessageBody}
      [] op = "getOwnerChargers" ->
            {ServerOwnerChargers, OwnerChargersOfTwo, MessageBody}
      [] op = "getChargerBookings" ->
            {BookingsOfOne, BookingsOfTwo, MessageBody, Null}
      [] op \in {"createCharger", "updateCharger", "deleteCharger",
                  "completeBooking", "cancelBooking"} ->
            {SavedBody, ErrorBody, MessageBody, Null}
      [] OTHER -> {}

-----------------------------------------------------------------------------
(* API.request (unnamed/part_001, lines 47-89) *)

Calls == 1..MaxCalls

\* One asynchronous operation: where it stands (pc), which operation it is
\* (op; role is the portal role Auth.login was called with), the token its
\* request carries in the Authorization header (None: no header), whether
\* the 10-second abort timer of its request is armed, the status of the
\* response it received (0: none), how often location.reload() was called
\* for that response, and what API.request resolved to.
IdleCall ==
    [pc |-> "idle", op |-> None, role |-> None, auth |-> None,
     timer |-> FALSE, status |-> 0, reloads |-> 0, result |-> Null]

\* JavaScript runs a resolved promise's continuations before it handles the
\* next event: while a caller's continuation is pending, no response, timer
\* or user event is handled.
NoContinuationPending == \A c \in Calls : calls[c].pc # "resolved"

\* A variant without the `if (token)' of line 56: the header is built from
\* whatever getItem returned ("Bearer null" for an absent key).
request_authorization_noCheck(tok) == IF tok # None THEN tok ELSE "null"

\* Lines 55-58: the token the Authorization header carries; None when no
\* header is set.
request_authorization(tok) == IF tok # None THEN tok ELSE None

\* A variant that clears the session on every status but 200.
request_onResponse_anyFailure(status, tok, usr) ==
    [timer |-> FALSE,
     token |-> IF status # 200 THEN None ELSE tok,
     user |-> IF status # 200 THEN None ELSE usr,
     reloads |-> IF status = 401 THEN 1 ELSE 0]

\* Lines 48-72: the token in storage, if any, goes into the Authorization
\* header, the timer is armed and fetch is called.
IssuedRequest(op, role, tok) ==
    [IdleCall EXCEPT !.pc = "fetch", !.op = op, !.role = role,
                     !.auth = request_authorization(tok), !.timer = TRUE]

StartRequest(c, op, role) ==
    /\ NoContinuationPending
    /\ calls[c].pc = "idle"
    /\ calls' = [calls EXCEPT ![c] = IssuedRequest(op, role, token)]

\* Line 87: the catch block's return value.
request_catch(message) == OfflineError(message)

\* The request's promise resolves to `result'.
Resolve(c, result) ==
    calls' = [calls EXCEPT ![c].pc = "resolved", ![c].timer = FALSE,
                           ![c].result = result]

\* fetch rejects (no connection, DNS, CORS): the catch block runs. The timer
\* is not cleared on this path; when it fires it aborts a settled fetch,
\* which has no effect, so the model disarms it here.
NetworkError(c) ==
    /\ NoContinuationPending
    /\ calls[c].pc = "fetch"
    /\ Resolve(c, request_catch(ErrNetwork))
    /\ UNCHANGED <<token, user, page, href, alert, chargers, demoChargers,
                   demoLeaderboard, leaderboard, statusVars, htmlVars,
                   loadVars, sideVars>>

\* Line 69: the timer fires and controller.abort() rejects whatever the
\* request is waiting for with an AbortError; the catch block runs.
TimerFires(c) ==
    /\ NoContinuationPending
    /\ calls[c].timer
    /\ calls[c].pc \in {"fetch", "body"}
    /\ Resolve(c, request_catch(ErrAborted))
    /\ UNCHANGED <<token, user, page, href, alert, chargers, demoChargers,
                   demoLeaderboard, leaderboard, statusVars, htmlVars,
                   loadVars, sideVars>>

\* A variant that removes 'token' only.
request_onResponse_tokenOnly(status, tok, usr) ==
    [timer |-> FALSE,
     token |-> IF status = 401 THEN None ELSE tok,
     user |-> usr,
     reloads |-> IF status = 401 THEN 1 ELSE 0]

\* Lines 73-80, run when fetch resolves with the response headers:
\* clearTimeout, and on 401 both keys are removed and the page reloaded.
request_onResponse(status, tok, usr) ==
    [timer |-> FALSE,
     token |-> IF status = 401 THEN None ELSE tok,
     user |-> IF status = 401 THEN None ELSE usr,
     reloads |-> IF status = 401 THEN 1 ELSE 0]

\* fetch resolves: the response's status line and headers have arrived.
ResponseArrives(c, status) ==
    /\ NoContinuationPending
    /\ calls[c].pc = "fetch"
    /\ LET r == request_onResponse(status, token, user)
       IN  /\ token' = r.token
           /\ user' = r.user
           /\ calls' = [calls EXCEPT ![c].pc = "body", ![c].status = status,
                                     ![c].timer = r.timer,
                                     ![c].reloads = r.reloads]
    /\ UNCHANGED <<page, href, alert, chargers, demoChargers,
                   demoLeaderboard, leaderboard, statusVars, htmlVars,
                   loadVars, sideVars>>

\* Line 84: return json.
request_return(json) == json

\* Lines 82-84: response.json() resolves with the decoded body.
BodyDecoded(c) ==
    /\ NoContinuationPending
    /\ calls[c].pc = "body"
    /\ \E json \in Bodies(calls[c].op) : Resolve(c, request_return(json))
    /\ UNCHANGED <<token, user, page, href, alert, chargers, demoChargers,
                   demoLeaderboard, leaderboard, statusVars, htmlVars,
                   loadVars, sideVars>>

\* response.json() rejects: the body is no JSON (an HTML error page, an empty
\* body) or the connection drops while it is read. The catch block runs.
BodyUndecodable(c) ==
    /\ NoContinuationPending
    /\ calls[c].pc = "body"
    /\ Resolve(c, request_catch(ErrSyntax))
    /\ UNCHANGED <<token, user, page, href, alert, chargers, demoChargers,
                   demoLeaderboard, leaderboard, statusVars, htmlVars,
                   loadVars, sideVars>>

-----------------------------------------------------------------------------
(* The fallback wrappers (unnamed/part_001, lines 103-113 and 248-258) *)

\* What an async function hands its caller: an exception, or a value, which
\* is either the built-in array object itself (ref names it) or a value that
\* came out of the response.
Thrown == [threw |-> TRUE, ref |-> None, value |-> Null]

ReturnBuiltin(name) == [threw |-> FALSE, ref |-> name, value |-> Null]

ReturnValue(v) == [threw |-> FALSE, ref |-> "response", value |-> v]

\* `result.error || result.offline'; reading a property of null throws.
withFallback(result, builtin) ==
    IF result.type = "null" THEN Thrown
    ELSE IF Has(result, "error") \/ Has(result, "offline")
         THEN ReturnBuiltin(builtin)
    ELSE ReturnValue(result)

getAllChargers(result) == withFallback(result, "DEMO_CHARGERS")

getLeaderboard(result) == withFallback(result, "DEMO_LEADERBOARD")

\* The array a returned value denotes, given the built-in arrays' contents.
Deref(ret, demoC, demoL) ==
    CASE ret.ref = "DEMO_CHARGERS" -> Arr(demoC)
      [] ret.ref = "DEMO_LEADERBOARD" -> Arr(demoL)
      [] OTHER -> ret.value

-----------------------------------------------------------------------------
(* loadChargers (map.js, lines 154-196) and loadLeaderboard (454-482) *)

\* The module variable `chargers' refers to an array: the built-in
\* DEMO_CHARGERS object, or an array of its own.
OwnArray(items) == [ref |-> "own", items |-> items]

BuiltinArray == [ref |-> "DEMO_CHARGERS", items |-> <<>>]

\* The stations `chargers' holds.
ChargerItems == IF chargers.ref = "own" THEN chargers.items ELSE demoChargers

\* A variant that empties the current array in place (chargers.length = 0)
\* where the code assigns a new empty array.
loadChargers_then_inPlace(ret, cur, demoC) ==
    IF ~ret.threw /\ ret.ref = "DEMO_CHARGERS"
    THEN [chargers |-> BuiltinArray, demoChargers |-> demoC]
    ELSE IF ~ret.threw /\ ret.value.type = "array"
    THEN [chargers |-> OwnArray(ret.value.items), demoChargers |-> demoC]
    ELSE IF cur.ref = "own"
    THEN [chargers |-> OwnArray(<<>>), demoChargers |-> demoC]
    ELSE [chargers |-> cur, demoChargers |-> <<>>]

\* Lines 159-195, after `await API.getAllChargers()': the new value of
\* `chargers' and the contents of DEMO_CHARGERS afterwards. An exception
\* (line 188) and a value that is no array give a new empty array; an array
\* is assigned as it is, the built-in object by reference.
loadChargers_then(ret, cur, demoC) ==
    IF ret.threw THEN [chargers |-> OwnArray(<<>>), demoChargers |-> demoC]
    ELSE IF ret.ref = "DEMO_CHARGERS"
    THEN [chargers |-> BuiltinArray, demoChargers |-> demoC]
    ELSE IF ret.value.type = "array"
    THEN [chargers |-> OwnArray(ret.value.items), demoChargers |-> demoC]
    ELSE [chargers |-> OwnArray(<<>>), demoChargers |-> demoC]

\* Lines 459-481: what the leaderboard container shows afterwards. An
\* exception leaves it as it was (the function has no catch); a value that
\* is no array, or an empty one, shows "No users yet".
loadLeaderboard_then(ret, shown, demoL) ==
    IF ret.threw THEN shown
    ELSE LET data == Deref(ret, <<>>, demoL)
         IN  IF data.type = "array" /\ data.items # <<>>
             THEN data.items
             ELSE <<>>

StartLoadChargers(c) ==
    /\ page = "dashboard"
    /\ StartRequest(c, "loadChargers", None)
    /\ UNCHANGED <<token, user, page, href, alert, chargers, demoChargers,
                   demoLeaderboard, leaderboard, statusVars, htmlVars,
                   loadVars, sideVars>>

StartLoadLeaderboard(c) ==
    /\ page = "dashboard"
    /\ StartRequest(c, "loadLeaderboard", None)
    /\ UNCHANGED <<token, user, page, href, alert, chargers, demoChargers,
                   demoLeaderboard, leaderboard, statusVars, htmlVars,
                   loadVars, sideVars>>

ContinueLoadChargers(c) ==
    /\ calls[c].pc = "resolved"
    /\ calls[c].op = "loadChargers"
    /\ LET r == loadChargers_then(getAllChargers(calls[c].result),
                                  chargers, demoChargers)
       IN  /\ chargers' = r.chargers
           /\ demoChargers' = r.demoChargers
    /\ calls' = [calls EXCEPT ![c] = IdleCall]
    /\ UNCHANGED <<token, user, page, href, alert, demoLeaderboard,
                   leaderboard, statusVars, htmlVars,
                   loadVars, sideVars>>

ContinueLoadLeaderboard(c) ==
    /\ calls[c].pc = "resolved"
    /\ calls[c].op = "loadLeaderboard"
    /\ leaderboard' = loadLeaderboard_then(getLeaderboard(calls[c].result),
                                           leaderboard, demoLeaderboard)
    /\ calls' = [calls EXCEPT ![c] = IdleCall]
    /\ UNCHANGED <<token, user, page, href, alert, chargers, demoChargers,
                   demoLeaderboard, statusVars, htmlVars,
                   loadVars, sideVars>>

-----------------------------------------------------------------------------
(* Auth.login (unnamed/part_000, lines 11-47) *)

Dashboard(role) ==
    IF role = "owner" THEN "/public/owner.html" ELSE "/public/dashboard.html"

\* A variant without the role check of lines 28-32.
login_then_noRoleCheck(result, role, tok, usr, loc) ==
    IF result.type = "null" \/ ~Has(result, "token")
    THEN [token |-> tok, user |-> usr, href |-> loc, alert |-> "failed"]
    ELSE IF ~Has(result, "user")
    THEN [token |-> tok, user |-> usr, href |-> loc, alert |-> "error"]
    ELSE [token |-> result.fields.token, user |-> result.fields.user.role,
          href |-> Dashboard(result.fields.user.role), alert |-> None]

\* Lines 17-46, after `await API.login()': the two storage keys, the
\* location and the alert shown. No token: the failure alert. A token and no
\* user object: reading result.user.role throws, and the catch block alerts.
\* A role other than the portal's: the wrong-portal alert. Otherwise both
\* keys are written and the page is redirected.
login_then(result, role, tok, usr, loc) ==
    IF result.type = "null" \/ ~Has(result, "token")
    THEN [token |-> tok, user |-> usr, href |-> loc, alert |-> "failed"]
    ELSE IF ~Has(result, "user")
    THEN [token |-> tok, user |-> usr, href |-> loc, alert |-> "error"]
    ELSE IF result.fields.user.role # role
    THEN [token |-> tok, user |-> usr, href |-> loc, alert |-> "portal"]
    ELSE [token |-> result.fields.token, user |-> result.fields.user.role,
          href |-> Dashboard(result.fields.user.role), alert |-> None]

StartLogin(c, role) ==
    /\ page = "login"
    /\ StartRequest(c, "login", role)
    /\ UNCHANGED <<token, user, page, href, alert, chargers, demoChargers,
                   demoLeaderboard, leaderboard, statusVars, htmlVars,
                   loadVars, sideVars>>

ContinueLogin(c) ==
    /\ calls[c].pc = "resolved"
    /\ calls[c].op = "login"
    /\ LET r == login_then(calls[c].result, calls[c].role, token, user, href)
       IN  /\ token' = r.token
           /\ user' = r.user
           /\ href' = r.href
           /\ alert' = IF r.alert = None THEN alert ELSE r.alert
    /\ calls' = [calls EXCEPT ![c] = IdleCall]
    /\ UNCHANGED <<page, chargers, demoChargers, demoLeaderboard,
                   leaderboard, statusVars, htmlVars,
                   loadVars, sideVars>>

-----------------------------------------------------------------------------
(* Auth.register (unnamed/part_000, lines 51-79) and Auth.logout (83-89) *)

\* What localStorage.setItem('user', JSON.stringify(undefined)) stores: the
\* key holds the string "undefined", which is no user record (JSON.parse of
\* it throws).
Undefined == "undefined"

\* Lines 57-78, after `await API.register()'. No token: the failure alert.
\* Otherwise both keys are written (lines 67-68) before result.user is
\* looked into: with no user object the 'user' key gets "undefined", line 69
\* throws on result.user.name and the catch block alerts; nothing redirects.
register_then(result, tok, usr, loc) ==
    IF result.type = "null" \/ ~Has(result, "token")
    THEN [token |-> tok, user |-> usr, href |-> loc, alert |-> "failed"]
    ELSE IF ~Has(result, "user")
    THEN [token |-> result.fields.token, user |-> Undefined, href |-> loc,
          alert |-> "error"]
    ELSE [token |-> result.fields.token, user |-> result.fields.user.role,
          href |-> Dashboard(result.fields.user.role), alert |-> None]

StartRegister(c) ==
    /\ page = "register"
    /\ StartRequest(c, "register", None)
    /\ UNCHANGED <<token, user, page, href, alert, chargers, demoChargers,
                   demoLeaderboard, leaderboard, statusVars, htmlVars,
                   loadVars, sideVars>>

ContinueRegister(c) ==
    /\ calls[c].pc = "resolved"
    /\ calls[c].op = "register"
    /\ LET r == register_then(calls[c].result, token, user, href)
       IN  /\ token' = r.token
           /\ user' = r.user
           /\ href' = r.href
           /\ alert' = IF r.alert = None THEN alert ELSE r.alert
    /\ calls' = [calls EXCEPT ![c] = IdleCall]
    /\ UNCHANGED <<page, chargers, demoChargers, demoLeaderboard,
                   leaderboard, statusVars, htmlVars,
                   loadVars, sideVars>>

\* A variant that removes 'token' only.
logout_tokenOnly(tok, usr) ==
    [token |-> None, user |-> usr, href |-> "/public/index.html"]

\* Auth.logout: both keys removed and the location assigned, in one
\* synchronous function (no await between the statements).
logout(tok, usr) ==
    [token |-> None, user |-> None, href |-> "/public/index.html"]

Auth_isAuthenticated(tok) == tok # None

\* Auth.getCurrentUser: null for an absent key, the parsed record otherwise.
\* (JSON.parse throws for the string "undefined".)
Auth_getCurrentUser(usr) == usr

\* Where a click on the logout button leaves the location: the listener of
\* part_000 (line 124) calls Auth.logout; the user dashboard's listener
\* (main.js 93-98), once installed, runs after it, calls Auth.logout again
\* and assigns the login page.
LogoutTargets == {"/public/index.html", "/public/login.html"}

\* A click on the logout button (the listeners run without any await).
LogoutClick ==
    /\ NoContinuationPending
    /\ page = "dashboard"
    /\ LET r == logout(token, user)
       IN  /\ token' = r.token
           /\ user' = r.user
           /\ \E dest \in LogoutTargets :
                 href' = IF dest = "/public/index.html" THEN r.href ELSE dest
    /\ UNCHANGED <<page, alert, chargers, demoChargers, demoLeaderboard,
                   leaderboard, calls, statusVars, htmlVars,
                   loadVars, sideVars>>

-----------------------------------------------------------------------------
(* The owner dashboard (owner-dashboard.js) *)

\* The DOMContentLoaded handler of the owner dashboard and the loads it
\* awaits: where it stands (pc), the call it awaits (0: none), what the
\* storage keys held when the page loaded, how many owner data requests it
\* issued, how many refresh timers are installed, ownerStations, what
\* #myChargersList shows, the array the running for...of loop iterates, its
\* index, the running total of loadStatistics, what its booking fetches
\* returned, and the figures it displayed.
NoList == [kind |-> None, rows |-> <<>>]

NoFigures == [set |-> FALSE, stations |-> 0, bookings |-> 0, slots |-> 0]

OwnerIdle ==
    [pc |-> "start", await |-> 0,
     atLoad |-> [token |-> None, user |-> None],
     requests |-> 0, interval |-> 0, stations |-> <<>>, list |-> NoList,
     iterated |-> <<>>, i |-> 0, total |-> 0, fetched |-> <<>>,
     shown |-> NoFigures]

\* Lines 19-31: Auth.requireAuth(), then Auth.getCurrentUser(), user.name
\* (which throw unless the 'user' key holds a record) and the role test.
owner_guard(tok, usr) ==
    IF ~Auth_isAuthenticated(tok) THEN "redirect"
    ELSE IF Auth_getCurrentUser(usr) \notin Roles THEN "throw"
    ELSE IF Auth_getCurrentUser(usr) # "owner" THEN "denied"
    ELSE "load"

\* Lines 16-45 and 66-69: the handler up to its first await. Without a token
\* requireAuth redirects; an exception ends the handler in its catch block
\* (line 59); another role gets the alert and Auth.logout; the owner's page
\* calls loadOwnerStations, which issues the station list request.
OwnerBoot(c) ==
    /\ page = "owner"
    /\ owner.pc = "start"
    /\ calls[c].pc = "idle"
    /\ LET branch == owner_guard(token, user)
           out == logout(token, user)
       IN  CASE branch = "redirect" ->
                  /\ href' = "/public/index.html"
                  /\ owner' = [owner EXCEPT !.pc = "redirected"]
                  /\ UNCHANGED <<token, user, alert, calls>>
             [] branch = "throw" ->
                  /\ owner' = [owner EXCEPT !.pc = "failed"]
                  /\ UNCHANGED <<token, user, href, alert, calls>>
             [] branch = "denied" ->
                  /\ alert' = "denied"
                  /\ token' = out.token
                  /\ user' = out.user
                  /\ href' = out.href
                  /\ owner' = [owner EXCEPT !.pc = "denied"]
                  /\ UNCHANGED calls
             [] branch = "load" ->
                  /\ calls' = [calls EXCEPT ![c] =
                                  IssuedRequest("getOwnerChargers", None,
                                                token)]
                  /\ owner' = [owner EXCEPT !.pc = "stations", !.await = c,
                                            !.requests = @ + 1]
                  /\ UNCHANGED <<token, user, href, alert>>
    /\ UNCHANGED <<page, chargers, demoChargers, demoLeaderboard,
                   leaderboard, dash, statusVars, htmlVars,
                   sideVars>>

\* Line 70: ownerStations = Array.isArray(data) ? data : [].
loadOwnerStations_stations(data) ==
    IF data.type = "array" THEN data.items ELSE <<>>

\* Lines 74-147: line 75 reads ownerChargers, which nothing declares: the
\* ReferenceError is caught at line 144 and the list shows "Could not load
\* chargers", whatever the stations are. The rows of lines 93-134 are never
\* built.
loadOwnerStations_render(stations) == [kind |-> "error", rows |-> <<>>]

\* Line 267: the slots in use, summed over ownerStations.
RECURSIVE SlotsInUse(_)
SlotsInUse(stations) ==
    IF stations = <<>> THEN 0
    ELSE (Head(stations).totalSlots - Head(stations).availableSlots)
         + SlotsInUse(Tail(stations))

\* A variant that displays the sum of the available slots (the loop's
\* totalAvailableSlots) as the slots in use.
loadStatistics_show_available(stations, total) ==
    [set |-> TRUE, stations |-> Len(stations), bookings |-> total,
     slots |-> SlotsInUse([k \in 1..Len(stations) |->
                             [totalSlots |-> stations[k].availableSlots,
                              availableSlots |-> 0]])]

\* Lines 269-271: the figures displayed.
loadStatistics_show(stations, total) ==
    [set |-> TRUE, stations |-> Len(stations), bookings |-> total,
     slots |-> SlotsInUse(stations)]

IsActive(b) == b.status # "cancelled"

\* A variant in which a fetch that gives no array ends the count.
loadStatistics_add_abort(total, bookings) ==
    IF bookings.type = "array"
    THEN total + Len(SelectSeq(bookings.items, IsActive))
    ELSE 0

\* Lines 257-260: an array adds its bookings that are not cancelled;
\* anything else ({error, offline}, an error body, null) adds nothing.
\* API.getChargerBookings never throws.
loadStatistics_add(total, bookings) ==
    IF bookings.type = "array"
    THEN total + Len(SelectSeq(bookings.items, IsActive))
    ELSE total

\* OwnerBookingManagement.loadPendingRequests is called by
\* loadPendingRequests (owner-dashboard.js 348); it issues
\* API.getOwnerBookingRequests (part_001 201-204).
OwnerBookingManagement_loadPendingRequests == "getOwnerBookingRequests"

\* Lines 69-147 and 46, 248-257: the station list arrives, loadOwnerStations
\* ends, and loadStatistics starts: it fetches the first station's bookings,
\* or with no station displays its figures, runs loadRecentBookings (which
\* then fetches nothing) and returns, and loadPendingRequests is called.
OwnerAfterStations(c) ==
    /\ owner.pc = "stations"
    /\ owner.await = c
    /\ calls[c].pc = "resolved"
    /\ LET stations == loadOwnerStations_stations(calls[c].result)
           listed == [owner EXCEPT !.stations = stations,
                                   !.list = loadOwnerStations_render(stations),
                                   !.requests = @ + 1]
       IN  IF stations = <<>>
           THEN /\ owner' = [listed EXCEPT
                                !.pc = "pending",
                                !.shown = loadStatistics_show(stations, 0)]
                /\ calls' = [calls EXCEPT ![c] =
                                IssuedRequest(
                                    OwnerBookingManagement_loadPendingRequests,
                                    None, token)]
           ELSE /\ owner' = [listed EXCEPT !.pc = "stats",
                                           !.iterated = stations, !.i = 1,
                                           !.total = 0, !.fetched = <<>>]
                /\ calls' = [calls EXCEPT ![c] =
                                IssuedRequest("getChargerBookings", None,
                                              token)]
    /\ UNCHANGED <<token, user, page, href, alert, chargers, demoChargers,
                   demoLeaderboard, leaderboard, dash, statusVars, htmlVars,
                   sideVars>>

\* A variant of the loop that does not await: it goes on to the next
\* station while the fetch it issued is still in flight.
OwnerAfterBookings_eager(c) ==
    /\ owner.pc = "stats"
    /\ owner.await = c
    /\ calls[c].pc = "fetch"
    /\ owner.i < Len(owner.iterated)
    /\ \E d \in Calls :
          /\ calls[d].pc = "idle"
          /\ calls' = [calls EXCEPT ![d] =
                          IssuedRequest("getChargerBookings", None, token)]
          /\ owner' = [owner EXCEPT !.i = @ + 1, !.await = d,
                                    !.fetched = Append(@, Null),
                                    !.requests = @ + 1]
    /\ UNCHANGED <<token, user, page, href, alert, chargers, demoChargers,
                   demoLeaderboard, leaderboard, dash, statusVars, htmlVars,
                   sideVars>>

\* Lines 254-275 and 284-291: one station's bookings arrive in
\* loadStatistics. The loop goes on over the array it started with; after
\* its last station the figures are displayed from ownerStations as it is
\* then (lines 267, 269), and loadRecentBookings starts a loop over that
\* array: it fetches its first station's bookings, or with no station
\* returns, and loadPendingRequests is called.
OwnerAfterBookings(c) ==
    /\ owner.pc = "stats"
    /\ owner.await = c
    /\ calls[c].pc = "resolved"
    /\ LET total == loadStatistics_add(owner.total, calls[c].result)
           counted == [owner EXCEPT !.total = total,
                                    !.fetched = Append(@, calls[c].result),
                                    !.requests = @ + 1]
           shown == [counted EXCEPT
                        !.shown = loadStatistics_show(owner.stations, total),
                        !.iterated = owner.stations, !.i = 1]
       IN  IF owner.i < Len(owner.iterated)
           THEN /\ owner' = [counted EXCEPT !.i = @ + 1]
                /\ calls' = [calls EXCEPT ![c] =
                                IssuedRequest("getChargerBookings", None,
                                              token)]
           ELSE IF owner.stations # <<>>
           THEN /\ owner' = [shown EXCEPT !.pc = "recent"]
                /\ calls' = [calls EXCEPT ![c] =
                                IssuedRequest("getChargerBookings", None,
                                              token)]
           ELSE /\ owner' = [shown EXCEPT !.pc = "pending"]
                /\ calls' = [calls EXCEPT ![c] =
                                IssuedRequest(
                                    OwnerBookingManagement_loadPendingRequests,
                                    None, token)]
    /\ UNCHANGED <<token, user, page, href, alert, chargers, demoChargers,
                   demoLeaderboard, leaderboard, dash, statusVars, htmlVars,
                   sideVars>>

\* Lines 289-341 and 47: one station's bookings arrive in loadRecentBookings.
\* The next station's are fetched; after the last one the list is rendered,
\* loadStatistics returns and loadPendingRequests is called.
OwnerAfterRecent(c) ==
    /\ owner.pc = "recent"
    /\ owner.await = c
    /\ calls[c].pc = "resolved"
    /\ IF owner.i < Len(owner.iterated)
       THEN /\ owner' = [owner EXCEPT !.i = @ + 1, !.requests = @ + 1]
            /\ calls' = [calls EXCEPT ![c] =
                            IssuedRequest("getChargerBookings", None, token)]
       ELSE /\ owner' = [owner EXCEPT !.pc = "pending", !.requests = @ + 1]
            /\ calls' = [calls EXCEPT ![c] =
                            IssuedRequest(
                                OwnerBookingManagement_loadPendingRequests,
                                None, token)]
    /\ UNCHANGED <<token, user, page, href, alert, chargers, demoChargers,
                   demoLeaderboard, leaderboard, dash, statusVars, htmlVars,
                   sideVars>>

\* Lines 345-363 and 49-57: loadPendingRequests ends (it catches everything)
\* and the refresh timer is installed.
OwnerAfterPending(c) ==
    /\ owner.pc = "pending"
    /\ owner.await = c
    /\ calls[c].pc = "resolved"
    /\ calls' = [calls EXCEPT ![c] = IdleCall]
    /\ owner' = [owner EXCEPT !.pc = "done", !.await = 0, !.interval = @ + 1]
    /\ UNCHANGED <<token, user, page, href, alert, chargers, demoChargers,
                   demoLeaderboard, leaderboard, dash, statusVars, htmlVars,
                   sideVars>>

-----------------------------------------------------------------------------
(* The user dashboard's page load and refresh timer (main.js, lines 14-122) *)

\* The loads of the dashboard, by name.
PublicLoads == <<"chargers", "leaderboard", "impact">>

PrivateLoads == <<"profile", "sessions", "accepted">>

\* The DOMContentLoaded handler: where it stands (pc), the call it awaits
\* (0: none), the loads it has started, in order, whether the
\* booking-management UI is set up (lines 74-81), how many refresh timers are
\* installed, what the last tick of the timer started and whether a token was
\* present then, and whether a token was present when the page loaded.
NoTick == [fired |-> FALSE, loads |-> {}, auth |-> FALSE]

DashIdle ==
    [pc |-> "start", await |-> 0, loads |-> <<>>, bookingUI |-> FALSE,
     interval |-> 0, tick |-> NoTick, authAtLoad |-> FALSE]

\* Lines 21-44: the map is set up and loadChargers is called and awaited.
BootStart(c) ==
    /\ page = "dashboard"
    /\ dash.pc = "start"
    /\ StartRequest(c, "loadChargers", None)
    /\ dash' = [dash EXCEPT !.pc = "chargers", !.await = c,
                            !.loads = <<"chargers">>]
    /\ UNCHANGED <<token, user, page, href, alert, chargers, demoChargers,
                   demoLeaderboard, leaderboard, owner, statusVars, htmlVars,
                   sideVars>>

\* Lines 159-195 and 45-48: loadChargers finishes (it catches what
\* getAllChargers throws) and loadLeaderboard is called and awaited.
BootAfterChargers(c) ==
    /\ dash.pc = "chargers"
    /\ dash.await = c
    /\ calls[c].pc = "resolved"
    /\ LET r == loadChargers_then(getAllChargers(calls[c].result),
                                  chargers, demoChargers)
       IN  /\ chargers' = r.chargers
           /\ demoChargers' = r.demoChargers
    /\ calls' = [calls EXCEPT ![c] = IssuedRequest("loadLeaderboard", None,
                                                  token)]
    /\ dash' = [dash EXCEPT !.pc = "leaderboard",
                            !.loads = Append(@, "leaderboard")]
    /\ UNCHANGED <<token, user, page, href, alert, demoLeaderboard,
                   leaderboard, owner, statusVars, htmlVars,
                   sideVars>>

\* Lines 57-60: Auth.isAuthenticated(), then Auth.getCurrentUser() and
\* user.name, which throw unless the 'user' key holds a record.
boot_branch(tok, usr) ==
    IF ~Auth_isAuthenticated(tok) THEN "guest"
    ELSE IF Auth_getCurrentUser(usr) \in Roles THEN "user"
    ELSE "throw"

\* Lines 459-481 and 49-69, 83-121: loadLeaderboard finishes. It has no
\* catch: what getLeaderboard throws reaches the handler's catch block
\* (line 116), which alerts, and the handler ends there. Otherwise
\* loadImpact runs (static data, no request) and then, with a token, the
\* profile (static) and loadRecentSessions, which is awaited; without one
\* the logout listener and the refresh timer are installed.
BootAfterLeaderboard(c) ==
    /\ dash.pc = "leaderboard"
    /\ dash.await = c
    /\ calls[c].pc = "resolved"
    /\ LET ret == getLeaderboard(calls[c].result)
           branch == boot_branch(token, user)
       IN  IF ret.threw
           THEN /\ alert' = "dashboard"
                /\ dash' = [dash EXCEPT !.pc = "failed", !.await = 0]
                /\ calls' = [calls EXCEPT ![c] = IdleCall]
                /\ UNCHANGED leaderboard
           ELSE /\ leaderboard' = loadLeaderboard_then(ret, leaderboard,
                                                       demoLeaderboard)
                /\ CASE branch = "throw" ->
                          /\ alert' = "dashboard"
                          /\ dash' = [dash EXCEPT
                                         !.pc = "failed", !.await = 0,
                                         !.loads = Append(@, "impact")]
                          /\ calls' = [calls EXCEPT ![c] = IdleCall]
                     [] branch = "user" ->
                          /\ alert' = alert
                          /\ dash' = [dash EXCEPT
                                         !.pc = "sessions",
                                         !.loads = @ \o <<"impact", "profile",
                                                          "sessions">>]
                          /\ calls' = [calls EXCEPT ![c] =
                                          IssuedRequest("getUserBookings",
                                                        None, token)]
                     [] branch = "guest" ->
                          /\ alert' = alert
                          /\ dash' = [dash EXCEPT
                                         !.pc = "done", !.await = 0,
                                         !.loads = Append(@, "impact"),
                                         !.interval = @ + 1]
                          /\ calls' = [calls EXCEPT ![c] = IdleCall]
    /\ UNCHANGED <<token, user, page, href, chargers, demoChargers,
                   demoLeaderboard, owner, statusVars, htmlVars,
                   sideVars>>

\* BookingRequest.loadUserBookingRequests is called by loadAcceptedRequests
\* (main.js 250); it issues API.getUserBookingRequests (part_001 196-199).
BookingRequest_loadUserBookingRequests == "getUserBookingRequests"

\* Lines 208-243 and 69: loadRecentSessions finishes (it catches everything)
\* and loadAcceptedRequests is called and awaited.
BootAfterSessions(c) ==
    /\ dash.pc = "sessions"
    /\ dash.await = c
    /\ calls[c].pc = "resolved"
    /\ calls' = [calls EXCEPT ![c] =
                    IssuedRequest(BookingRequest_loadUserBookingRequests,
                                  None, token)]
    /\ dash' = [dash EXCEPT !.pc = "accepted",
                            !.loads = Append(@, "accepted")]
    /\ UNCHANGED <<token, user, page, href, alert, chargers, demoChargers,
                   demoLeaderboard, leaderboard, owner, statusVars, htmlVars,
                   sideVars>>

\* Lines 250-287 and 70-109: loadAcceptedRequests finishes (it catches
\* everything), the booking-management UI is set up, the logout listener
\* and the refresh timer are installed.
BootAfterAccepted(c) ==
    /\ dash.pc = "accepted"
    /\ dash.await = c
    /\ calls[c].pc = "resolved"
    /\ calls' = [calls EXCEPT ![c] = IdleCall]
    /\ dash' = [dash EXCEPT !.pc = "done", !.await = 0, !.bookingUI = TRUE,
                            !.interval = @ + 1]
    /\ UNCHANGED <<token, user, page, href, alert, chargers, demoChargers,
                   demoLeaderboard, leaderboard, owner, statusVars, htmlVars,
                   sideVars>>

\* A variant that refreshes the profile without asking for a token.
refresh_tick_noAuthCheck(tok) ==
    [fired |-> TRUE, loads |-> {"chargers", "impact", "profile"},
     auth |-> Auth_isAuthenticated(tok)]

\* Lines 102-109, the timer's callback: loadChargers(), loadImpact() and,
\* if Auth.isAuthenticated(), updateUserProfile().
refresh_tick(tok) ==
    [fired |-> TRUE,
     loads |-> {"chargers", "impact"}
               \cup (IF Auth_isAuthenticated(tok) THEN {"profile"} ELSE {}),
     auth |-> Auth_isAuthenticated(tok)]

\* A variant of the callback that returns at once while a station load is
\* in flight.
Tick_deduplicated(c) ==
    /\ dash.interval > 0
    /\ \A d \in Calls : calls[d].op # "loadChargers"
    /\ StartRequest(c, "loadChargers", None)
    /\ dash' = [dash EXCEPT !.tick = refresh_tick(token)]
    /\ UNCHANGED <<token, user, page, href, alert, chargers, demoChargers,
                   demoLeaderboard, leaderboard, owner, statusVars, htmlVars,
                   sideVars>>

\* 30 seconds have passed on an installed timer: the callback runs. Nothing
\* clears the timer, and the callback looks at no load in flight.
Tick(c) ==
    /\ dash.interval > 0
    /\ StartRequest(c, "loadChargers", None)
    /\ dash' = [dash EXCEPT !.tick = refresh_tick(token)]
    /\ UNCHANGED <<token, user, page, href, alert, chargers, demoChargers,
                   demoLeaderboard, leaderboard, owner, statusVars, htmlVars,
                   sideVars>>

\* A station load that no handler awaits (a tick's) finishes.
ContinueRefresh(c) ==
    /\ dash.await # c
    /\ ContinueLoadChargers(c)

-----------------------------------------------------------------------------
(* The actions that change server data (owner-dashboard.js, lines 151-246; *)
(* main.js, lines 355-395)                                                 *)

OwnerActions == {"handleAddCharger", "handleSaveEdit", "deleteCharger"}

BookingActions == {"completeBooking", "cancelBooking"}

\* The handlers that start with a confirm() prompt.
Destructive == {"deleteCharger", "completeBooking", "cancelBooking"}

\* The API wrapper each handler calls (part_001, lines 119-132, 173-181).
ActionRequest(kind) ==
    CASE kind = "handleAddCharger" -> "createCharger"
      [] kind = "handleSaveEdit" -> "updateCharger"
      [] kind = "deleteCharger" -> "deleteCharger"
      [] kind = "completeBooking" -> "completeBooking"
      [] kind = "cancelBooking" -> "cancelBooking"

\* showMyBookings as a handler started it: where it stands, the call it
\* awaits, the bookings it fetched, and what #bookings-content shows.
NoBookings == [pc |-> "idle", await |-> 0, list |-> Null, modal |-> None]

\* The handler in progress, or the last one: which one (kind), where it
\* stands (pc), the call it awaits (0: none), the answer to its confirm()
\* prompt, whether it sent its request, the reply it got, the alerts it
\* showed and the loads it started, in order, the lists as they were when it
\* started, the array and the index of the for...of loop of the
\* loadStatistics or loadRecentBookings it awaits, that loadStatistics'
\* running total, and the showMyBookings it started.
ActIdle ==
    [pc |-> "idle", kind |-> None, await |-> 0, asked |-> None,
     sent |-> FALSE, replied |-> FALSE, reply |-> Null, alerts |-> <<>>,
     refetch |-> <<>>,
     before |-> [stations |-> <<>>, chargers |-> OwnArray(<<>>)],
     iterated |-> <<>>, i |-> 0, total |-> 0, bookings |-> NoBookings]

\* The free slot a handler's request takes: the first one (which slot an
\* operation occupies makes no difference).
FirstIdle(c) ==
    /\ calls[c].pc = "idle"
    /\ \A d \in Calls : d < c => calls[d].pc # "idle"

\* A handler is called: the user acts when the handler called before and the
\* loads it started have finished.
ActionStarts(kind) ==
    /\ NoContinuationPending
    /\ act.pc = "idle"
    /\ act.bookings.pc = "idle"
    /\ \A d \in Calls : calls[d].op # "loadChargers"
    /\ kind \in OwnerActions =>
          /\ page = "owner"
          /\ owner.pc \in {"stations", "stats", "recent", "pending", "done"}
    /\ kind \in BookingActions =>
          page = "dashboard" /\ act.bookings.modal = "cards"

Started(kind, asked) ==
    [ActIdle EXCEPT !.kind = kind, !.asked = asked,
                    !.before = [stations |-> owner.stations,
                                chargers |-> chargers],
                    !.bookings = act.bookings]

\* A variant that sends the request whatever confirm() gave.
ConfirmedAction_unasked(c, kind, answer) ==
    /\ kind \in Destructive
    /\ ActionStarts(kind)
    /\ FirstIdle(c)
    /\ act' = [Started(kind, IF answer THEN "accepted" ELSE "declined")
                  EXCEPT !.pc = "reply", !.await = c, !.sent = TRUE]
    /\ calls' = [calls EXCEPT ![c] =
                    IssuedRequest(ActionRequest(kind), None, token)]
    /\ UNCHANGED <<token, user, page, href, alert, chargers, demoChargers,
                   demoLeaderboard, leaderboard, statusVars, htmlVars,
                   loadVars, view, hist>>

\* Lines 228-232 (owner-dashboard.js), 355-360 and 376-381 (main.js): the
\* handler returns unless confirm() gave true; otherwise it calls its API
\* wrapper and awaits the reply.
ConfirmedAction(c, kind, answer) ==
    /\ kind \in Destructive
    /\ ActionStarts(kind)
    /\ FirstIdle(c)
    /\ IF answer
       THEN /\ act' = [Started(kind, "accepted") EXCEPT
                          !.pc = "reply", !.await = c, !.sent = TRUE]
            /\ calls' = [calls EXCEPT ![c] =
                            IssuedRequest(ActionRequest(kind), None, token)]
       ELSE /\ act' = Started(kind, "declined")
            /\ UNCHANGED calls
    /\ UNCHANGED <<token, user, page, href, alert, chargers, demoChargers,
                   demoLeaderboard, leaderboard, statusVars, htmlVars,
                   loadVars, view, hist>>

\* Lines 151-176: the form's values are read; coordinates that are no
\* numbers give an alert and nothing else; otherwise API.createCharger is
\* called and awaited.
handleAddCharger(c, valid) ==
    /\ ActionStarts("handleAddCharger")
    /\ FirstIdle(c)
    /\ IF valid
       THEN /\ act' = [Started("handleAddCharger", None) EXCEPT
                          !.pc = "reply", !.await = c, !.sent = TRUE]
            /\ calls' = [calls EXCEPT ![c] =
                            IssuedRequest("createCharger", None, token)]
            /\ UNCHANGED alert
       ELSE /\ act' = [Started("handleAddCharger", None) EXCEPT
                          !.alerts = <<"invalid">>]
            /\ alert' = "invalid"
            /\ UNCHANGED calls
    /\ UNCHANGED <<token, user, page, href, chargers, demoChargers,
                   demoLeaderboard, leaderboard, statusVars, htmlVars,
                   loadVars, view, hist>>

\* Lines 201-211: API.updateCharger is called and awaited.
handleSaveEdit(c) ==
    /\ ActionStarts("handleSaveEdit")
    /\ FirstIdle(c)
    /\ act' = [Started("handleSaveEdit", None) EXCEPT
                  !.pc = "reply", !.await = c, !.sent = TRUE]
    /\ calls' = [calls EXCEPT ![c] =
                    IssuedRequest("updateCharger", None, token)]
    /\ UNCHANGED <<token, user, page, href, alert, chargers, demoChargers,
                   demoLeaderboard, leaderboard, statusVars, htmlVars,
                   loadVars, view, hist>>

\* Lines 177-179 and 213-215 (owner-dashboard.js): handleAddCharger and
\* handleSaveEdit throw for a reply with a truthy error or message; reading
\* a field of null throws too.
handleAddCharger_outcome(result) ==
    IF result.type = "null" THEN "failure"
    ELSE IF Has(result, "error") \/ Has(result, "message") THEN "failure"
    ELSE "success"

\* Lines 234-241 (owner-dashboard.js), 361-369 and 382-390 (main.js):
\* deleteCharger, completeBooking and cancelBooking look at result.error
\* only.
deleteCharger_outcome(result) ==
    IF result.type = "null" THEN "failure"
    ELSE IF Has(result, "error") THEN "failure"
    ELSE "success"

action_outcome(kind, result) ==
    IF kind \in {"handleAddCharger", "handleSaveEdit"}
    THEN handleAddCharger_outcome(result)
    ELSE deleteCharger_outcome(result)

\* showMyBookings, lines 296-337: "No active bookings yet" unless the
\* bookings are a non-empty array, whose cards are rendered.
showMyBookings_content(bookings) ==
    IF bookings.type = "array" /\ bookings.items # <<>> THEN "cards"
    ELSE "empty"

\* The reply arrives. A failure ends the handler in its catch block, with
\* the failure alert. After a success the owner's handlers alert and call
\* loadOwnerStations, which they await; the booking handlers alert and call
\* updateUserProfile (static data, no request), showMyBookings and
\* loadChargers, and return.
ActionReply(c) ==
    /\ act.pc = "reply"
    /\ act.await = c
    /\ calls[c].pc = "resolved"
    /\ LET outcome == action_outcome(act.kind, calls[c].result)
           got == [act EXCEPT !.replied = TRUE, !.reply = calls[c].result,
                              !.alerts = Append(@, outcome)]
       IN  /\ alert' = outcome
           /\ CASE outcome = "failure" ->
                     /\ act' = [got EXCEPT !.pc = "idle", !.await = 0]
                     /\ calls' = [calls EXCEPT ![c] = IdleCall]
                     /\ UNCHANGED owner
                [] outcome = "success" /\ act.kind \in OwnerActions ->
                     /\ act' = [got EXCEPT !.pc = "stations",
                                           !.refetch = <<"stations">>]
                     /\ calls' = [calls EXCEPT ![c] =
                                     IssuedRequest("getOwnerChargers", None,
                                                   token)]
                     /\ UNCHANGED owner
                [] outcome = "success" /\ act.kind \in BookingActions ->
                     \E d \in Calls :
                        /\ FirstIdle(d)
                        /\ act' = [got EXCEPT
                                      !.pc = "idle", !.await = 0,
                                      !.refetch = <<"profile", "bookings",
                                                    "chargers">>,
                                      !.bookings = [NoBookings EXCEPT
                                                       !.pc = "list",
                                                       !.await = c]]
                        /\ calls' = [calls EXCEPT
                                        ![c] = IssuedRequest(
                                                   "getUserBookings", None,
                                                   token),
                                        ![d] = IssuedRequest(
                                                   "loadChargers", None,
                                                   token)]
                        /\ UNCHANGED owner
    /\ UNCHANGED <<token, user, page, href, chargers, demoChargers,
                   demoLeaderboard, leaderboard, dash, statusVars, htmlVars,
                   view, hist>>

\* Lines 69-147 and 248-257: the station list the handler asked for
\* arrives, loadOwnerStations ends and loadStatistics is called and awaited:
\* it fetches the first station's bookings, or with no station displays its
\* figures, runs loadRecentBookings (which then fetches nothing) and the
\* handler ends.
ActionAfterStations(c) ==
    /\ act.pc = "stations"
    /\ act.await = c
    /\ calls[c].pc = "resolved"
    /\ LET stations == loadOwnerStations_stations(calls[c].result)
           listed == [owner EXCEPT
                         !.stations = stations,
                         !.list = loadOwnerStations_render(stations)]
           started == [act EXCEPT !.refetch = Append(@, "statistics")]
       IN  IF stations = <<>>
           THEN /\ owner' = [listed EXCEPT
                                !.shown = loadStatistics_show(stations, 0)]
                /\ act' = [started EXCEPT !.pc = "idle", !.await = 0]
                /\ calls' = [calls EXCEPT ![c] = IdleCall]
           ELSE /\ owner' = listed
                /\ act' = [started EXCEPT !.pc = "stats",
                                          !.iterated = stations, !.i = 1,
                                          !.total = 0]
                /\ calls' = [calls EXCEPT ![c] =
                                IssuedRequest("getChargerBookings", None,
                                              token)]
    /\ UNCHANGED <<token, user, page, href, alert, chargers, demoChargers,
                   demoLeaderboard, leaderboard, dash, statusVars, htmlVars,
                   view, hist>>

\* Lines 254-275 and 284-291, in the loadStatistics a handler awaits: as
\* OwnerAfterBookings, and after loadRecentBookings the handler ends.
ActionAfterBookings(c) ==
    /\ act.pc = "stats"
    /\ act.await = c
    /\ calls[c].pc = "resolved"
    /\ LET total == loadStatistics_add(act.total, calls[c].result)
           shown == [owner EXCEPT
                        !.shown = loadStatistics_show(owner.stations, total)]
       IN  IF act.i < Len(act.iterated)
           THEN /\ act' = [act EXCEPT !.total = total, !.i = @ + 1]
                /\ UNCHANGED owner
                /\ calls' = [calls EXCEPT ![c] =
                                IssuedRequest("getChargerBookings", None,
                                              token)]
           ELSE IF owner.stations # <<>>
           THEN /\ act' = [act EXCEPT !.total = total, !.pc = "recent",
                                      !.iterated = owner.stations, !.i = 1]
                /\ owner' = shown
                /\ calls' = [calls EXCEPT ![c] =
                                IssuedRequest("getChargerBookings", None,
                                              token)]
           ELSE /\ act' = [act EXCEPT !.pc = "idle", !.await = 0,
                                      !.iterated = <<>>, !.i = 0,
                                      !.total = 0]
                /\ owner' = shown
                /\ calls' = [calls EXCEPT ![c] = IdleCall]
    /\ UNCHANGED <<token, user, page, href, alert, chargers, demoChargers,
                   demoLeaderboard, leaderboard, dash, statusVars, htmlVars,
                   view, hist>>

\* Lines 289-341, in the loadRecentBookings a handler awaits.
ActionAfterRecent(c) ==
    /\ act.pc = "recent"
    /\ act.await = c
    /\ calls[c].pc = "resolved"
    /\ IF act.i < Len(act.iterated)
       THEN /\ act' = [act EXCEPT !.i = @ + 1]
            /\ calls' = [calls EXCEPT ![c] =
                            IssuedRequest("getChargerBookings", None, token)]
       ELSE /\ act' = [act EXCEPT !.pc = "idle", !.await = 0,
                                  !.iterated = <<>>, !.i = 0, !.total = 0]
            /\ calls' = [calls EXCEPT ![c] = IdleCall]
    /\ UNCHANGED owner
    /\ UNCHANGED <<token, user, page, href, alert, chargers, demoChargers,
                   demoLeaderboard, leaderboard, dash, statusVars, htmlVars,
                   view, hist>>

\* main.js, lines 79 and 290-294: a click on "My Bookings" calls
\* showMyBookings, which fetches the user's bookings.
showMyBookings(c) ==
    /\ ActionStarts(None)
    /\ page = "dashboard"
    /\ dash.bookingUI
    /\ FirstIdle(c)
    /\ act' = [act EXCEPT !.bookings = [NoBookings EXCEPT !.pc = "list",
                                                          !.await = c]]
    /\ calls' = [calls EXCEPT ![c] =
                    IssuedRequest("getUserBookings", None, token)]
    /\ UNCHANGED <<token, user, page, href, alert, chargers, demoChargers,
                   demoLeaderboard, leaderboard, statusVars, htmlVars,
                   loadVars, view, hist>>

\* main.js, lines 294-295: the bookings arrive in showMyBookings and
\* BookingRequest.loadUserBookingRequests is called and awaited.
ShowBookingsAfterList(c) ==
    /\ act.bookings.pc = "list"
    /\ act.bookings.await = c
    /\ calls[c].pc = "resolved"
    /\ act' = [act EXCEPT !.bookings.pc = "requests",
                          !.bookings.list = calls[c].result]
    /\ calls' = [calls EXCEPT ![c] =
                    IssuedRequest(BookingRequest_loadUserBookingRequests,
                                  None, token)]
    /\ UNCHANGED <<token, user, page, href, alert, chargers, demoChargers,
                   demoLeaderboard, leaderboard, statusVars, htmlVars,
                   loadVars, view, hist>>

\* main.js, lines 297-346: both tabs are filled and the modal is shown.
ShowBookingsAfterRequests(c) ==
    /\ act.bookings.pc = "requests"
    /\ act.bookings.await = c
    /\ calls[c].pc = "resolved"
    /\ act' = [act EXCEPT
                  !.bookings = [NoBookings EXCEPT
                                   !.list = act.bookings.list,
                                   !.modal = showMyBookings_content(
                                                 act.bookings.list)]]
    /\ calls' = [calls EXCEPT ![c] = IdleCall]
    /\ UNCHANGED <<token, user, page, href, alert, chargers, demoChargers,
                   demoLeaderboard, leaderboard, statusVars, htmlVars,
                   loadVars, view, hist>>

-----------------------------------------------------------------------------
(* The map (map.js, lines 7-11, 27-58, 62-150, 200-274, 336-372) *)

\* The number of runs of renderChargersOnMap on an initialised map.
MaxRuns == 2

\* Lines 27-34.
getMarkerColor(status) ==
    CASE status = "available" -> "#2ecc71"
      [] status = "limited" -> "#f39c12"
      [] status = "busy" -> "#e74c3c"
      [] OTHER -> "#95a5a6"

\* What the map was last asked to show: map.setView([51.505, -0.09], 13),
\* or map.fitBounds(bounds.pad(0.1), {maxZoom: 15}) over a set of markers.
DefaultView == [kind |-> "setView", over |-> {},
                centre |-> <<"51.505", "-0.09">>, pad |-> None, zoom |-> 13]

FitBounds(over) == [kind |-> "fitBounds", over |-> over, centre |-> <<>>,
                    pad |-> "0.1", zoom |-> 15]

\* `let map' unset, `let markers = []', nothing on the map, the sidebar
\* empty. The fields created, fitThrew and returned record the last run of
\* renderChargersOnMap: what happened to each station's marker, whether the
\* bounds computation or the fit threw, and how the function ended.
NoView == [map |-> FALSE, markers |-> <<>>, layers |-> {},
           fit |-> [kind |-> None, over |-> {}, centre |-> <<>>,
                    pad |-> None, zoom |-> 0],
           run |-> 0, created |-> <<>>, fitThrew |-> FALSE,
           returned |-> None, cards |-> <<>>]

\* Lines 228-240: the marker of one station, made in the run-th run.
Marker(charger, run) ==
    [id |-> charger.id,
     colour |-> getMarkerColor(getChargerStatus(charger)),
     popup |-> getChargerStatus(charger),
     run |-> run]

\* What the try block of lines 227-246 can do for one station: run to its
\* end ("added"); throw before `.addTo(map)' has put the marker on the map
\* ("threwBefore": L.marker rejects the coordinates); or throw after it has
\* ("threwAfter": the marker is on the map when a later call of the chain
\* throws), in which case line 242, `markers.push(marker)', is not reached.

MarkersOf(ms) == { ms[k] : k \in DOMAIN ms }

\* The array `markers' after the forEach of lines 226-247.
RECURSIVE Pushed(_, _, _)
Pushed(items, created, run) ==
    IF items = <<>> THEN <<>>
    ELSE LET rest == Pushed(Tail(items), Tail(created), run)
         IN  IF Head(created) = "added"
             THEN <<Marker(Head(items), run)>> \o rest
             ELSE rest

\* The markers the forEach of lines 226-247 has put on the map.
AddedToMap(items, created, run) ==
    { Marker(items[k], run) :
        k \in { j \in DOMAIN items : created[j] # "threwBefore" } }

\* A variant of lines 251-270 without the try/catch around the fit.
fitView_uncaught(prev, ms, fits) ==
    IF ms # <<>>
    THEN IF fits THEN [fit |-> FitBounds(MarkersOf(ms)), threw |-> FALSE]
         ELSE [fit |-> prev, threw |-> TRUE]
    ELSE [fit |-> DefaultView, threw |-> FALSE]

\* Lines 251-270: the view requested, and whether an exception leaves the
\* function. With markers, a fit to their bounds; when the bounds or the
\* fit throw (fits is FALSE), the catch sets the default view; without
\* markers, the default view.
fitView(prev, ms, fits) ==
    IF ms # <<>>
    THEN IF fits THEN [fit |-> FitBounds(MarkersOf(ms)), threw |-> FALSE]
         ELSE [fit |-> DefaultView, threw |-> FALSE]
    ELSE [fit |-> DefaultView, threw |-> FALSE]

\* Lines 200-274. Without a map the function returns false at once.
\* Otherwise every marker of `markers' is taken off the map, `markers'
\* starts empty, the stations get their markers and the view is fitted.
renderChargersOnMap(v, items, created, fits) ==
    IF ~v.map THEN [v EXCEPT !.returned = "false"]
    ELSE LET run == v.run + 1
             ms == Pushed(items, created, run)
             f == fitView(v.fit, ms, fits)
         IN  [v EXCEPT !.markers = ms,
                       !.layers = (v.layers \ MarkersOf(v.markers))
                                  \cup AddedToMap(items, created, run),
                       !.fit = f.fit,
                       !.run = run,
                       !.created = created,
                       !.fitThrew = (ms # <<>> /\ ~fits),
                       !.returned = IF f.threw THEN "threw" ELSE "true"]

\* Lines 336-372: one card for each of the first ten stations.
renderChargersList(items) ==
    [k \in 1..(IF Len(items) < 10 THEN Len(items) ELSE 10) |->
        [id |-> items[k].id, status |-> getChargerStatus(items[k])]]

\* Lines 62-150: the map is created once, with the default view.
initMap ==
    /\ page = "dashboard"
    /\ ~view.map
    /\ view' = [view EXCEPT !.map = TRUE, !.fit = DefaultView]
    /\ UNCHANGED <<token, user, page, href, alert, chargers, demoChargers,
                   demoLeaderboard, leaderboard, calls, statusVars, htmlVars,
                   loadVars, act, hist>>

\* The station lists a load can hand to the renderers: none, the server's
\* station, the same station with other slot counts, the demo stations.
StationLists ==
    { <<>>,
      ServerChargers.items,
      << [ServerChargers.items[1] EXCEPT !.availableSlots = 3] >>,
      DEMO_CHARGERS }

\* loadChargers, lines 176-184, for an array of stations: `chargers = data',
\* then renderChargersOnMap() and renderChargersList().
RenderStations(items, created, fits) ==
    /\ page = "dashboard"
    /\ view.run < MaxRuns
    /\ chargers' = OwnArray(items)
    /\ view' = [renderChargersOnMap(view, items, created, fits)
                  EXCEPT !.cards = renderChargersList(items)]
    /\ UNCHANGED <<token, user, page, href, alert, demoChargers,
                   demoLeaderboard, leaderboard, calls, statusVars, htmlVars,
                   loadVars, act, hist>>

\* An execution of loadChargers begins (main.js 44 at page load, 101-109
\* on the refresh timer, 366 and 387 after a completed or cancelled
\* booking): map.js 154-158, up to `await API.getAllChargers()'. hist
\* records the executions in the order of their requests, and whether
\* another execution was waiting for its response when this one began.
LoadIssued(c) ==
    /\ page = "dashboard"
    /\ view.map
    /\ Len(hist) < 2
    /\ StartRequest(c, "loadChargers", None)
    /\ hist' = Append(hist, [slot |-> c, finished |-> FALSE, data |-> <<>>,
                             overlapped |->
                                 \E k \in DOMAIN hist : ~hist[k].finished])
    /\ UNCHANGED <<token, user, page, href, alert, chargers, demoChargers,
                   demoLeaderboard, leaderboard, statusVars, htmlVars,
                   loadVars, act, view>>

\* The execution of slot c goes on after its await: map.js 159-195, the
\* assignment to `chargers' and both renderers, for stations whose markers
\* can be created and fitted. hist records the stations it rendered.
LoadFinished(c) ==
    /\ calls[c].pc = "resolved"
    /\ calls[c].op = "loadChargers"
    /\ LET r == loadChargers_then(getAllChargers(calls[c].result),
                                  chargers, demoChargers)
           items == IF r.chargers.ref = "own" THEN r.chargers.items
                    ELSE r.demoChargers
       IN  /\ chargers' = r.chargers
           /\ demoChargers' = r.demoChargers
           /\ view' = [renderChargersOnMap(view, items,
                                            [k \in DOMAIN items |-> "added"],
                                            TRUE)
                         EXCEPT !.cards = renderChargersList(items)]
           /\ hist' = [k \in DOMAIN hist |->
                         IF hist[k].slot = c /\ ~hist[k].finished
                         THEN [hist[k] EXCEPT !.finished = TRUE,
                                              !.data = items]
                         ELSE hist[k]]
    /\ calls' = [calls EXCEPT ![c] = IdleCall]
    /\ UNCHANGED <<token, user, page, href, alert, demoLeaderboard,
                   leaderboard, statusVars, htmlVars, loadVars, act>>

-----------------------------------------------------------------------------
(* The specifications *)

\* The page as a script finds it: the storage keys survive from an earlier
\* page (no session, a user's, an owner's); nothing is loaded yet.
Sessions ==
    { [token |-> None, user |-> None] }
    \cup { [token |-> "jwt", user |-> r] : r \in Roles }

\* The pages of the model: a login page, whose form calls Auth.login with
\* the portal's role, and the user dashboard (main.js, map.js).
Pages == {"login", "dashboard"}

SideIdle ==
    /\ act = ActIdle
    /\ view = NoView
    /\ hist = <<>>

PageIdle ==
    /\ href = None
    /\ alert = None
    /\ chargers = OwnArray(<<>>)
    /\ demoChargers = DEMO_CHARGERS
    /\ demoLeaderboard = DEMO_LEADERBOARD
    /\ leaderboard = <<>>
    /\ calls = [c \in Calls |-> IdleCall]
    /\ dash = DashIdle
    /\ owner = OwnerIdle
    /\ SideIdle

StatusIdle ==
    /\ station = [availableSlots |-> 0, totalSlots |-> 0]
    /\ classification = None

HtmlIdle ==
    /\ rec = [name |-> <<>>, address |-> <<>>, description |-> <<>>,
              totalSlots |-> 6, availableSlots |-> 2]
    /\ fragment = NoFragment

Init ==
    /\ \E s \in Sessions : token = s.token /\ user = s.user
    /\ page \in Pages
    /\ PageIdle
    /\ StatusIdle
    /\ HtmlIdle

Next ==
    \E c \in Calls :
        \/ StartLoadChargers(c)
        \/ StartLoadLeaderboard(c)
        \/ \E role \in Roles : StartLogin(c, role)
        \/ NetworkError(c)
        \/ TimerFires(c)
        \/ \E status \in Statuses : ResponseArrives(c, status)
        \/ BodyDecoded(c)
        \/ BodyUndecodable(c)
        \/ ContinueLoadChargers(c)
        \/ ContinueLoadLeaderboard(c)
        \/ ContinueLogin(c)

Spec == Init /\ [][Next]_vars

\* The event loop runs a pending continuation, and an armed timer fires
\* (strong fairness: other calls' continuations hold it back only for a
\* moment). Nothing obliges the network to deliver anything.
Fairness ==
    \A c \in Calls :
        /\ SF_vars(TimerFires(c))
        /\ WF_vars(ContinueLoadChargers(c))
        /\ WF_vars(ContinueLoadLeaderboard(c))
        /\ WF_vars(ContinueLogin(c))

FairSpec == Spec /\ Fairness

\* The pages of the session operations: the login form, the registration
\* form, and the dashboard with its logout button and, for the operations
\* that only use the session, its station load.
SessionPages == Pages \cup {"register"}

InitSession ==
    /\ \E s \in Sessions : token = s.token /\ user = s.user
    /\ page \in SessionPages
    /\ PageIdle
    /\ StatusIdle
    /\ HtmlIdle

NextSession ==
    \/ LogoutClick
    \/ \E c \in Calls :
          \/ \E role \in Roles : StartLogin(c, role)
          \/ StartRegister(c)
          \/ StartLoadChargers(c)
          \/ NetworkError(c)
          \/ TimerFires(c)
          \/ \E status \in Statuses : ResponseArrives(c, status)
          \/ BodyDecoded(c)
          \/ BodyUndecodable(c)
          \/ ContinueLogin(c)
          \/ ContinueRegister(c)
          \/ ContinueLoadChargers(c)

SpecSession == InitSession /\ [][NextSession]_vars

\* What the storage keys can hold when a dashboard is opened: no session,
\* one a login or a registration wrote, or the token and the "undefined" a
\* registration left behind.
StoredSessions == Sessions \cup { [token |-> "jwt", user |-> Undefined] }

\* The user dashboard, from DOMContentLoaded on.
InitDashboard ==
    /\ \E s \in StoredSessions : token = s.token /\ user = s.user
    /\ page = "dashboard"
    /\ href = None
    /\ alert = None
    /\ chargers = OwnArray(<<>>)
    /\ demoChargers = DEMO_CHARGERS
    /\ demoLeaderboard = DEMO_LEADERBOARD
    /\ leaderboard = <<>>
    /\ calls = [c \in Calls |-> IdleCall]
    /\ dash = [DashIdle EXCEPT !.authAtLoad = Auth_isAuthenticated(token)]
    /\ owner = OwnerIdle
    /\ SideIdle
    /\ StatusIdle
    /\ HtmlIdle

NextDashboard ==
    \/ LogoutClick
    \/ \E c \in Calls :
          \/ BootStart(c)
          \/ BootAfterChargers(c)
          \/ BootAfterLeaderboard(c)
          \/ BootAfterSessions(c)
          \/ BootAfterAccepted(c)
          \/ Tick(c)
          \/ ContinueRefresh(c)
          \/ NetworkError(c)
          \/ TimerFires(c)
          \/ \E status \in Statuses : ResponseArrives(c, status)
          \/ BodyDecoded(c)
          \/ BodyUndecodable(c)

SpecDashboard == InitDashboard /\ [][NextDashboard]_vars

\* The owner dashboard, from DOMContentLoaded on.
InitOwner ==
    /\ \E s \in StoredSessions : token = s.token /\ user = s.user
    /\ page = "owner"
    /\ href = None
    /\ alert = None
    /\ chargers = OwnArray(<<>>)
    /\ demoChargers = DEMO_CHARGERS
    /\ demoLeaderboard = DEMO_LEADERBOARD
    /\ leaderboard = <<>>
    /\ calls = [c \in Calls |-> IdleCall]
    /\ dash = DashIdle
    /\ owner = [OwnerIdle EXCEPT !.atLoad = [token |-> token, user |-> user]]
    /\ SideIdle
    /\ StatusIdle
    /\ HtmlIdle

NextOwner ==
    \E c \in Calls :
        \/ OwnerBoot(c)
        \/ OwnerAfterStations(c)
        \/ OwnerAfterBookings(c)
        \/ OwnerAfterRecent(c)
        \/ OwnerAfterPending(c)
        \/ NetworkError(c)
        \/ TimerFires(c)
        \/ \E status \in Statuses : ResponseArrives(c, status)
        \/ BodyDecoded(c)
        \/ BodyUndecodable(c)

SpecOwner == InitOwner /\ [][NextOwner]_vars

\* The owner dashboard as its page load leaves it when the station list
\* request gave the stations and every booking request gave `bookings'.
OwnerLoaded(stations, bookings) ==
    [OwnerIdle EXCEPT
        !.pc = "done",
        !.atLoad = [token |-> "jwt", user |-> "owner"],
        !.requests = 2 + 2 * Len(stations),
        !.interval = 1,
        !.stations = stations,
        !.list = loadOwnerStations_render(stations),
        !.iterated = stations,
        !.i = Len(stations),
        !.total = loadStatistics_add(0, bookings) * Len(stations),
        !.fetched = [k \in 1..Len(stations) |-> bookings],
        !.shown = loadStatistics_show(
                      stations,
                      loadStatistics_add(0, bookings) * Len(stations))]

\* The user dashboard as its page load leaves it for a signed-in user.
DashLoaded ==
    [DashIdle EXCEPT !.pc = "done", !.loads = PublicLoads \o PrivateLoads,
                     !.bookingUI = TRUE, !.interval = 1,
                     !.authAtLoad = TRUE]

\* A loaded page on which the user acts: the owner dashboard with the
\* stations A, B, C or with none, or the user dashboard with the server's
\* stations or with the built-in ones.
InitActions ==
    /\ token = "jwt"
    /\ \/ /\ page = "owner"
          /\ user = "owner"
          /\ owner \in { OwnerLoaded(ServerOwnerChargers.items,
                                      BookingsOfOne),
                          OwnerLoaded(<<>>, BookingsOfOne) }
          /\ dash = DashIdle
          /\ chargers = OwnArray(<<>>)
          /\ leaderboard = <<>>
       \/ /\ page = "dashboard"
          /\ user = "user"
          /\ owner = OwnerIdle
          /\ dash = DashLoaded
          /\ \/ /\ chargers = OwnArray(ServerChargers.items)
                /\ leaderboard = ServerLeaderboard.items
             \/ /\ chargers = BuiltinArray
                /\ leaderboard = DEMO_LEADERBOARD
    /\ href = None
    /\ alert = None
    /\ demoChargers = DEMO_CHARGERS
    /\ demoLeaderboard = DEMO_LEADERBOARD
    /\ calls = [c \in Calls |-> IdleCall]
    /\ SideIdle
    /\ StatusIdle
    /\ HtmlIdle

NextActions ==
    \E c \in Calls :
        \/ \E kind \in Destructive, answer \in BOOLEAN :
              ConfirmedAction(c, kind, answer)
        \/ \E valid \in BOOLEAN : handleAddCharger(c, valid)
        \/ handleSaveEdit(c)
        \/ ActionReply(c)
        \/ ActionAfterStations(c)
        \/ ActionAfterBookings(c)
        \/ ActionAfterRecent(c)
        \/ showMyBookings(c)
        \/ ShowBookingsAfterList(c)
        \/ ShowBookingsAfterRequests(c)
        \/ ContinueLoadChargers(c)
        \/ NetworkError(c)
        \/ TimerFires(c)
        \/ \E status \in Statuses : ResponseArrives(c, status)
        \/ BodyDecoded(c)
        \/ BodyUndecodable(c)

SpecActions == InitActions /\ [][NextActions]_vars

\* The owner dashboard from DOMContentLoaded on, with an owner who submits
\* the "Add Charger" form, once, while the page is loading, and a server
\* that answers every request with status 200.
InitOwnerActions ==
    /\ InitOwner
    /\ token = "jwt"
    /\ user = "owner"

NextOwnerActions ==
    \E c \in Calls :
        \/ OwnerBoot(c)
        \/ OwnerAfterStations(c)
        \/ OwnerAfterBookings(c)
        \/ OwnerAfterRecent(c)
        \/ OwnerAfterPending(c)
        \/ (act = ActIdle /\ handleAddCharger(c, TRUE))
        \/ ActionReply(c)
        \/ ActionAfterStations(c)
        \/ ActionAfterBookings(c)
        \/ ActionAfterRecent(c)
        \/ ResponseArrives(c, 200)
        \/ BodyDecoded(c)

SpecOwnerActions == InitOwnerActions /\ [][NextOwnerActions]_vars

\* The map of the user dashboard: initMap, and loads that hand station
\* lists to renderChargersOnMap and renderChargersList.
InitMapPage ==
    /\ token = "jwt"
    /\ user = "user"
    /\ page = "dashboard"
    /\ PageIdle
    /\ StatusIdle
    /\ HtmlIdle

NextMap ==
    \/ initMap
    \/ \E items \in StationLists :
         \E created \in [DOMAIN items ->
                              {"added", "threwBefore", "threwAfter"}] :
           \E fits \in BOOLEAN :
             RenderStations(items, created, fits)

SpecMap == InitMapPage /\ [][NextMap]_vars

\* Two executions of loadChargers on the user dashboard, each with its own
\* request, over the API client.
NextOverlap ==
    \/ initMap
    \/ \E c \in Calls :
        \/ LoadIssued(c)
        \/ LoadFinished(c)
        \/ NetworkError(c)
        \/ TimerFires(c)
        \/ \E status \in Statuses : ResponseArrives(c, status)
        \/ BodyDecoded(c)
        \/ BodyUndecodable(c)

SpecOverlap == InitMapPage /\ [][NextOverlap]_vars

InitStatus ==
    /\ station \in SlotRecords
    /\ classification = None
    /\ token = None
    /\ user = None
    /\ page = "dashboard"
    /\ PageIdle
    /\ HtmlIdle

NextStatus == Classify

SpecStatus == InitStatus /\ [][NextStatus]_vars

InitHtml ==
    /\ rec \in StationTexts
    /\ fragment = NoFragment
    /\ token = None
    /\ user = None
    /\ page = "dashboard"
    /\ PageIdle
    /\ StatusIdle

NextHtml ==
    \/ RenderPopup
    \/ RenderCard
    \/ RenderDetail
    \/ RenderSessions
    \/ RenderBookings

SpecHtml == InitHtml /\ [][NextHtml]_vars

-----------------------------------------------------------------------------
(* Status classification: C1, C2, C3 (under SpecStatus) *)

\* ceil(3n/10) by its definition: the least integer that is at least 3n/10.
CeilOfThreeTenths(n) ==
    CHOOSE k \in 0..(n + 1) : 10 * k >= 3 * n /\ 10 * (k - 1) < 3 * n

Classified == classification # None

\* C1: for 0 <= availableSlots <= totalSlots, getChargerStatus returns
\* 'busy' iff availableSlots = 0, 'available' iff availableSlots > 0 and
\* availableSlots >= ceil(totalSlots * 0.3), and 'limited' in every other
\* case.
C1_Classification ==
    (Classified /\ station.availableSlots <= station.totalSlots) =>
        LET a == station.availableSlots
            isBusy == a = 0
            isAvailable == a > 0 /\ a >= CeilOfThreeTenths(station.totalSlots)
        IN  /\ (classification = "busy") <=> isBusy
            /\ (classification = "available") <=> isAvailable
            /\ (classification = "limited") <=> (~isBusy /\ ~isAvailable)

\* A station with some but too few free slots has been classified.
C1_Witness ==
    /\ Classified
    /\ station.availableSlots > 0
    /\ station.availableSlots < CeilOfThreeTenths(station.totalSlots)
    /\ station.availableSlots <= station.totalSlots

\* C2: getChargerStatus returns one of the three classifications for every
\* pair of non-negative slot counts, availableSlots > totalSlots included;
\* with totalSlots = 0 it returns 'busy' for availableSlots = 0 and
\* 'available' for every availableSlots > 0.
C2_Total ==
    Classified =>
        /\ classification \in {"busy", "limited", "available"}
        /\ station.totalSlots = 0 =>
              classification =
                 IF station.availableSlots = 0 THEN "busy" ELSE "available"

\* A station with no slots at all and a positive available count has been
\* classified.
C2_Witness ==
    /\ Classified
    /\ station.totalSlots = 0
    /\ station.availableSlots > 0

IsTowerBridgePlaza ==
    /\ station.totalSlots = DEMO_CHARGERS[2].totalSlots
    /\ station.availableSlots = DEMO_CHARGERS[2].availableSlots

\* C3 as stated: the station with totalSlots = 6 and availableSlots = 2
\* (demo station 'Tower Bridge Plaza') is classified 'limited'.
C3_Limited == (Classified /\ IsTowerBridgePlaza) => classification = "limited"

\* C3 as amended: that station is classified 'available', since
\* 2 >= ceil(6 * 0.3) = 2.
C3_Available ==
    (Classified /\ IsTowerBridgePlaza) => classification = "available"

\* The demo station 'Tower Bridge Plaza' has been classified.
C3_Witness == Classified /\ IsTowerBridgePlaza

-----------------------------------------------------------------------------
(* HTML escaping: C4 (under SpecHtml) *)

TextFields == {"name", "address", "description"}

HasRawSpecial(text) == \E i \in 1..Len(text) : text[i] \in Special

\* C4: in every generated fragment the station's name, address and
\* description appear only with the characters < > & " replaced by their
\* entities.
C4_Escaped ==
    \A i \in 1..Len(fragment.pieces) :
        fragment.pieces[i].src \in TextFields =>
            ~HasRawSpecial(fragment.pieces[i].text)

-----------------------------------------------------------------------------
(* The API client: C5, C7, C8, C9 (under Spec), C6 (under FairSpec) *)

Resolved(c) == calls[c].pc = "resolved"

\* C5: API.request resolves to {error, offline: true} for every outcome that
\* is no success (no response, an aborted request, a status other than 2xx,
\* an undecodable body), and to the decoded payload only for a 2xx response.
C5_UniformFailure ==
    \A c \in Calls :
        Resolved(c) =>
            IF calls[c].status = 200
            THEN \/ calls[c].result \in Bodies(calls[c].op)
                 \/ IsOfflineShape(calls[c].result)
            ELSE IsOfflineShape(calls[c].result)

\* C6: every call of API.request eventually returns to its caller.
C6_EventuallyReturns ==
    \A c \in Calls :
        (calls[c].pc \in {"fetch", "body"}) ~> (calls[c].pc = "resolved")

\* C7: the step in which API.request receives a response removes both
\* storage keys and reloads the page once if the status is 401, and leaves
\* both keys alone and reloads nothing for any other status.
C7_Unauthorized ==
    [][\A c \in Calls :
          (calls[c].pc = "fetch" /\ calls'[c].pc = "body") =>
              IF calls'[c].status = 401
              THEN token' = None /\ user' = None /\ calls'[c].reloads = 1
              ELSE token' = token /\ user' = user /\ calls'[c].reloads = 0
      ]_vars

\* A request sent with the session's token has received a 401 response:
\* both keys are gone, one reload.
C7_Witness ==
    \E c \in Calls :
        /\ calls[c].pc = "body"
        /\ calls[c].auth = "jwt"
        /\ calls[c].status = 401
        /\ calls[c].reloads = 1
        /\ token = None
        /\ user = None

IsFailure(c) == Resolved(c) /\ calls[c].status # 200

\* C8: for a network error, a timeout and a response with a non-2xx status
\* alike, API.getAllChargers and API.getLeaderboard return the built-in demo
\* dataset, never the server's error body and never an exception.
C8_UniformFallback ==
    \A c \in Calls :
        IsFailure(c) =>
            /\ calls[c].op = "loadChargers" =>
                  getAllChargers(calls[c].result)
                      = ReturnBuiltin("DEMO_CHARGERS")
            /\ calls[c].op = "loadLeaderboard" =>
                  getLeaderboard(calls[c].result)
                      = ReturnBuiltin("DEMO_LEADERBOARD")

\* C9: when API.request resolves to {error, offline: true},
\* API.getAllChargers returns DEMO_CHARGERS and API.getLeaderboard returns
\* DEMO_LEADERBOARD, whose contents are at all times those they were built
\* with.
C9_DemoUnmodified ==
    /\ demoChargers = DEMO_CHARGERS
    /\ demoLeaderboard = DEMO_LEADERBOARD
    /\ \A c \in Calls :
          (Resolved(c) /\ IsOfflineShape(calls[c].result)) =>
              /\ calls[c].op = "loadChargers" =>
                    Deref(getAllChargers(calls[c].result),
                          demoChargers, demoLeaderboard) = Arr(DEMO_CHARGERS)
              /\ calls[c].op = "loadLeaderboard" =>
                    Deref(getLeaderboard(calls[c].result),
                          demoChargers, demoLeaderboard)
                        = Arr(DEMO_LEADERBOARD)
    /\ chargers.ref = "DEMO_CHARGERS" => ChargerItems = DEMO_CHARGERS

\* The station list is the built-in dataset after one failed load, and
\* another load is about to find the server's answer to be no array.
C9_Witness ==
    \E c \in Calls :
        /\ Resolved(c)
        /\ calls[c].op = "loadChargers"
        /\ calls[c].result = Null
        /\ chargers = BuiltinArray

-----------------------------------------------------------------------------
(* Auth.login: C10 (under Spec) *)

RoleMismatch(c) ==
    /\ Resolved(c)
    /\ calls[c].op = "login"
    /\ Has(calls[c].result, "token")
    /\ Has(calls[c].result, "user")
    /\ calls[c].result.fields.user.role # calls[c].role

\* C10: when the response carries a token and a user whose role is not the
\* portal's, Auth.login leaves 'token' and 'user' as they are and assigns no
\* new location.
C10_RoleMismatch ==
    [][\A c \in Calls :
          (RoleMismatch(c) /\ calls'[c].pc = "idle") =>
              token' = token /\ user' = user /\ href' = href
      ]_vars

\* The wrong-portal alert has been shown on a page that held a session, and
\* nothing redirected.
C10_Witness ==
    /\ alert = "portal"
    /\ href = None
    /\ token = "jwt"

-----------------------------------------------------------------------------
(* The session: C11, C12, C13, C14 (under SpecSession) *)

\* C11: the stored session is never partial: the 'token' key is present if
\* and only if the 'user' key holds a user record, whatever login, register,
\* logout and the responses did.
C11_NeverPartial == (token # None) <=> (user \in Roles)

LoginStep ==
    \E c \in Calls :
        /\ Resolved(c)
        /\ calls[c].op \in {"login", "register"}
        /\ Has(calls[c].result, "token")
        /\ calls'[c].pc = "idle"

UnauthorizedStep ==
    \E c \in Calls :
        calls[c].pc = "fetch" /\ calls'[c].pc = "body" /\ calls'[c].status = 401

\* The only steps that leave every call as it is are the logout button's.
LogoutStep == calls' = calls /\ href' \in LogoutTargets

\* C12: 'token' goes from absent to present only in a step of Auth.login or
\* Auth.register whose response contains a token, and from present to absent
\* only in a step of Auth.logout or in API.request's handling of a 401; every
\* other step leaves both keys unchanged.
C12_Lifecycle ==
    [][/\ (token = None /\ token' # None) => LoginStep
       /\ (token # None /\ token' = None) => (LogoutStep \/ UnauthorizedStep)
       /\ ~(LoginStep \/ LogoutStep \/ UnauthorizedStep) =>
             (token' = token /\ user' = user)
      ]_vars

\* A login has written the owner's session while a request issued without a
\* token is still in flight.
C12_Witness ==
    /\ token = "jwt"
    /\ user = "owner"
    /\ href = "/public/owner.html"
    /\ \E c \in Calls : calls[c].pc = "fetch" /\ calls[c].auth = None

\* C13: no state has exactly one of the two keys present, and a step of
\* Auth.logout ends with both keys absent (isAuthenticated false,
\* getCurrentUser null) and a redirect requested.
C13_LogoutAtomic ==
    /\ []((token = None) <=> (user = None))
    /\ [][LogoutStep =>
             /\ ~Auth_isAuthenticated(token')
             /\ Auth_getCurrentUser(user') = None
             /\ href' \in LogoutTargets
         ]_vars

\* The logout button was clicked while a request carrying the token was
\* waiting for its response.
C13_Witness ==
    /\ token = None
    /\ user = None
    /\ href = "/public/login.html"
    /\ \E c \in Calls : calls[c].pc = "fetch" /\ calls[c].auth = "jwt"

\* C14: a request carries the token that is in storage at the moment it is
\* issued, and no Authorization header if there is none: a request issued
\* after a logout or a 401 never carries the old token.
C14_BearerToken ==
    [][\A c \in Calls :
          (calls[c].pc = "idle" /\ calls'[c].pc = "fetch") =>
              /\ token # None => calls'[c].auth = token
              /\ token = None => calls'[c].auth = None
      ]_vars

\* On the dashboard a request that carried the token got a 401, and a
\* request issued since carries no header.
C14_Witness ==
    /\ page = "dashboard"
    /\ \E c, d \in Calls :
          /\ calls[d].auth = "jwt"
          /\ calls[d].status = 401
          /\ calls[c].pc = "fetch"
          /\ calls[c].auth = None

-----------------------------------------------------------------------------
(* The user dashboard: C16, C17, C18 (under SpecDashboard) *)

BootEnded == dash.pc \in {"done", "failed"}

IsPrefix(a, b) == Len(a) <= Len(b) /\ SubSeq(b, 1, Len(a)) = a

\* C16: on load the three public loads are performed with or without a
\* token; the private loads and the booking-management UI setup are
\* performed if and only if a token was present at load time, after the
\* public loads, in the order profile, recent sessions, accepted requests.
\* (Left out: a page whose session was cleared while it loaded, by a 401 or
\* by the logout button, as it is about to be replaced, and a page opened on
\* a token without a user record.)
C16_LoadOrder ==
    /\ IsPrefix(dash.loads, PublicLoads \o PrivateLoads)
    /\ (/\ BootEnded
        /\ dash.authAtLoad = Auth_isAuthenticated(token)
        /\ user # Undefined) =>
          IF dash.authAtLoad
          THEN dash.loads = PublicLoads \o PrivateLoads /\ dash.bookingUI
          ELSE dash.loads = PublicLoads /\ ~dash.bookingUI

\* C17 as stated: a tick reloads the station list, the leaderboard and the
\* impact and, if and only if a token is present at that time, the profile.
C17_TickReloadsAll ==
    dash.tick.fired =>
        dash.tick.loads = {"chargers", "leaderboard", "impact"}
                          \cup (IF dash.tick.auth THEN {"profile"} ELSE {})

\* A step of the timer's callback: on a page whose timer is installed, the
\* only requests issued are the ticks'.
TickStep ==
    /\ dash.interval = 1
    /\ \E c \in Calls : calls[c].pc = "idle" /\ calls'[c].pc = "fetch"

\* C17 as amended: a tick reloads the station list and the impact, not the
\* leaderboard, and, if and only if a token is present at that time, the
\* profile.
C17_TickReloads ==
    [][TickStep =>
          /\ dash'.tick.fired
          /\ dash'.tick.loads =
                {"chargers", "impact"}
                \cup (IF token # None THEN {"profile"} ELSE {})
      ]_vars

\* A page loaded with a session has ticked after the session was cleared.
C17_Witness ==
    /\ dash.tick.fired
    /\ ~dash.tick.auth
    /\ dash.authAtLoad

LoadsInFlight ==
    { c \in Calls : calls[c].op = "loadChargers"
                    /\ calls[c].pc \in {"fetch", "body"} }

\* C18: at most one refresh timer is installed per page load, an installed
\* timer stays installed, and a tick runs whether or not earlier station
\* loads are in flight (while the model has a slot left to name the new
\* one).
C18_UnguardedTimer ==
    /\ [](dash.interval <= 1)
    /\ [][dash.interval = 1 => dash'.interval = 1]_vars
    /\ []((/\ dash.interval = 1
           /\ NoContinuationPending
           /\ \E c \in Calls : calls[c].pc = "idle")
          => ENABLED (\E c \in Calls : Tick(c)))

\* Two station loads are in flight at the same time.
C18_Witness == dash.interval = 1 /\ Cardinality(LoadsInFlight) >= 2

-----------------------------------------------------------------------------
(* The owner dashboard: C15, C19, C20 (under SpecOwner) *)

OwnerBooted == owner.pc # "start"

\* C15: the owner dashboard issues no owner data request and installs no
\* refresh timer unless a token was present at load time and the stored
\* user's role was 'owner'; with no token it redirects and loads nothing;
\* with a token and any other stored user it calls Auth.logout, so both keys
\* are cleared.
C15_OwnerGuard ==
    /\ (owner.requests > 0 \/ owner.interval > 0) =>
          (owner.atLoad.token # None /\ owner.atLoad.user = "owner")
    /\ (OwnerBooted /\ owner.atLoad.token = None) =>
          (href = "/public/index.html" /\ owner.requests = 0)
    /\ (OwnerBooted /\ owner.atLoad.token # None
                    /\ owner.atLoad.user # "owner") =>
          (token = None /\ user = None)

\* The bookings of a fetched array that are not cancelled, counted.
NonCancelled(bookings) ==
    Cardinality({ k \in 1..Len(bookings.items) :
                    bookings.items[k].status # "cancelled" })

\* loadStatistics has displayed its figures for the stations A, B, C, and
\* the booking fetch of B failed while those of A and C gave their arrays.
OnlyBFailed ==
    /\ owner.shown.set
    /\ Len(owner.fetched) = 3
    /\ owner.fetched[1].type = "array"
    /\ owner.fetched[2].type # "array"
    /\ owner.fetched[3].type = "array"

\* C19: when B's booking fetch fails and A's and C's succeed, the displayed
\* total is the number of non-cancelled bookings of A plus that of C, and
\* the station count and the slots in use are displayed all the same.
C19_PartialStatistics ==
    OnlyBFailed =>
        /\ owner.shown.bookings = NonCancelled(owner.fetched[1])
                                  + NonCancelled(owner.fetched[3])
        /\ owner.shown.stations = 3
        /\ owner.shown.slots = (4 - 1) + (2 - 2) + (6 - 4)

\* B's fetch ended in a network error and A and C have three bookings that
\* count.
C19_Witness ==
    /\ OnlyBFailed
    /\ IsOfflineShape(owner.fetched[2])
    /\ owner.shown.bookings = 3

\* C20: after loadOwnerStations for the stations A, B, C the list is the
\* table with one row per station, B's row with the placeholder in its
\* Bookings cell when its fetch failed, and not an error message.
C20_StationRows ==
    (owner.list.kind # None /\ Len(owner.stations) = 3) =>
        /\ owner.list.kind = "table"
        /\ Len(owner.list.rows) = 3
        /\ owner.list.rows[2].placeholder

-----------------------------------------------------------------------------
(* The owner statistics: C21, C22 (under SpecOwner) *)

\* The total and the available slots of all the stations.
RECURSIVE TotalSlotsOver(_)
TotalSlotsOver(stations) ==
    IF stations = <<>> THEN 0
    ELSE Head(stations).totalSlots + TotalSlotsOver(Tail(stations))

RECURSIVE AvailableSlotsOver(_)
AvailableSlotsOver(stations) ==
    IF stations = <<>> THEN 0
    ELSE Head(stations).availableSlots + AvailableSlotsOver(Tail(stations))

\* The non-cancelled bookings of all the fetched arrays.
RECURSIVE CountedIn(_)
CountedIn(fetched) ==
    IF fetched = <<>> THEN 0
    ELSE NonCancelled(Head(fetched)) + CountedIn(Tail(fetched))

\* loadStatistics has displayed its figures, and each station's booking
\* fetch gave an array.
EveryFetchSucceeded ==
    /\ owner.shown.set
    /\ Len(owner.fetched) = Len(owner.stations)
    /\ \A k \in 1..Len(owner.fetched) : owner.fetched[k].type = "array"

\* C21: when every booking fetch succeeds, loadStatistics displays the
\* number of stations of the station list, the number of their bookings
\* that are not cancelled, and the sum of totalSlots - availableSlots over
\* them, which is not negative when every station has
\* 0 <= availableSlots <= totalSlots.
C21_Figures ==
    EveryFetchSucceeded =>
        /\ owner.shown.stations = Len(owner.stations)
        /\ owner.shown.bookings = CountedIn(owner.fetched)
        /\ owner.shown.slots = TotalSlotsOver(owner.stations)
                                - AvailableSlotsOver(owner.stations)
        /\ (\A k \in 1..Len(owner.stations) :
               /\ 0 <= owner.stations[k].availableSlots
               /\ owner.stations[k].availableSlots
                     <= owner.stations[k].totalSlots)
              => owner.shown.slots >= 0

\* The figures of three stations whose fetches gave different arrays.
C21_Witness ==
    /\ EveryFetchSucceeded
    /\ Len(owner.stations) = 3
    /\ owner.fetched[1] # owner.fetched[2]
    /\ owner.shown.bookings = 4
    /\ owner.shown.slots = 5

\* The booking fetches that have been issued and not yet resolved.
BookingFetchesInFlight ==
    { c \in Calls : /\ calls[c].op = "getChargerBookings"
                    /\ calls[c].pc \in {"fetch", "body"} }

\* C22: while the statistics loop runs, it has fetched the bookings of the
\* stations before the current one and has at most one booking fetch in
\* flight; it moves on, by one station, only when the fetch it awaits has
\* resolved, successfully or not.
C22_OneAtATime ==
    /\ [](owner.pc = "stats" =>
            /\ Cardinality(BookingFetchesInFlight) <= 1
            /\ owner.i \in 1..Len(owner.iterated)
            /\ Len(owner.fetched) = owner.i - 1)
    /\ [][(owner.pc = "stats" /\ owner'.pc = "stats"
                              /\ owner'.i # owner.i) =>
            /\ calls[owner.await].pc = "resolved"
            /\ owner'.i = owner.i + 1
            /\ owner'.fetched = Append(owner.fetched,
                                       calls[owner.await].result)]_vars

\* The second station's fetch is in flight after the first one's failed.
C22_Witness ==
    /\ owner.pc = "stats"
    /\ owner.i = 2
    /\ owner.fetched[1].type # "array"
    /\ BookingFetchesInFlight = {owner.await}

-----------------------------------------------------------------------------
(* The actions that change server data: C23, C24, C25 (under SpecActions) *)

\* The reply of the last handler carried an 'error' or a 'message' field (a
\* transport error reaches the handler as {error, offline: true}).
ReplyCarriesError ==
    /\ act.replied
    /\ Has(act.reply, "error") \/ Has(act.reply, "message")

\* C23: each of the five handlers treats a reply that carries an 'error' or
\* a 'message' field, a transport error included, as a failure: it shows the
\* failure alert, no success alert, and starts no re-fetch.
C23_UniformClassification ==
    ReplyCarriesError => (act.alerts = <<"failure">> /\ act.refetch = <<>>)

\* The loads a successful handler starts first.
Reloads(kind) ==
    IF kind \in OwnerActions THEN <<"stations">>
    ELSE <<"profile", "bookings", "chargers">>

\* C24: a handler that succeeded has started the reloads of the lists it
\* affects from the server; one that failed (its reply carried an error or
\* a message, or none came) has shown the failure alert, has started no
\* re-fetch, and has left the in-memory station lists as they were.
C24_OnlyThroughRefetch ==
    act.replied =>
        IF act.reply = SavedBody
        THEN /\ act.alerts = <<"success">>
             /\ IsPrefix(Reloads(act.kind), act.refetch)
        ELSE /\ act.alerts = <<"failure">>
             /\ act.refetch = <<>>
             /\ owner.stations = act.before.stations
             /\ chargers = act.before.chargers

DestructiveRequests ==
    { c \in Calls : /\ calls[c].pc # "idle"
                    /\ calls[c].op \in {ActionRequest(k) : k \in Destructive} }

\* The user declines the prompt of a destructive handler.
DeclineStep ==
    /\ act' # act
    /\ \E kind \in Destructive :
          act' = [ActIdle EXCEPT !.kind = kind, !.asked = "declined",
                                 !.before = [stations |-> owner.stations,
                                             chargers |-> chargers],
                                 !.bookings = act.bookings]

\* C25: a delete, complete or cancel request is in flight only after the
\* user accepted the handler's prompt, and a declined prompt sends nothing,
\* alerts nothing, starts no load and changes nothing on the page.
C25_ConfirmFirst ==
    /\ [](DestructiveRequests # {} =>
            (act.asked = "accepted" /\ act.kind \in Destructive))
    /\ [][DeclineStep =>
            /\ ~act'.sent /\ act'.alerts = <<>> /\ act'.refetch = <<>>
            /\ UNCHANGED <<token, user, page, href, alert, chargers,
                           demoChargers, demoLeaderboard, leaderboard,
                           calls, dash, owner, view>>]_vars

\* The user has declined to cancel a booking of the list shown.
C25_Witness ==
    /\ act.kind = "cancelBooking"
    /\ act.asked = "declined"
    /\ act.bookings.modal = "cards"
    /\ \A c \in Calls : calls[c].pc = "idle"

-----------------------------------------------------------------------------
(* The user dashboard's loads: C26 (under SpecDashboard) *)

\* C26: whatever the loads of the user dashboard's page load run into, each
\* one ends by itself: the handler goes on to its end and installs the
\* refresh timer. (Left out: a page opened on a token without a user
\* record.)
C26_LoadFailuresIsolated ==
    (BootEnded /\ user # Undefined) =>
        (dash.pc = "done" /\ dash.interval = 1 /\ alert # "dashboard")

-----------------------------------------------------------------------------
(* The owner statistics during a reload: C29 (under SpecOwnerActions) *)

\* The loadStatistics of the page load, or the one a handler awaits, leaves
\* its loop and displays its figures.
LoadDisplays == owner.pc = "stats" /\ owner'.pc # "stats"

ActionDisplays == act.pc = "stats" /\ act'.pc # "stats"

\* The figures displayed are those of the stations.
FiguresOf(stations) ==
    /\ owner'.shown.set
    /\ owner'.shown.stations = Len(stations)
    /\ owner'.shown.slots = TotalSlotsOver(stations)
                            - AvailableSlotsOver(stations)

\* C29: the figures an execution of loadStatistics displays are those of
\* one station list, the one whose stations' bookings it counted, also when
\* ownerStations was replaced while it waited for a booking fetch.
C29_OneSnapshot ==
    [][/\ LoadDisplays =>
            /\ FiguresOf(owner.iterated)
            /\ Len(owner'.fetched) = Len(owner.iterated)
            /\ owner'.shown.bookings = owner'.total
       /\ ActionDisplays => FiguresOf(act.iterated)]_vars

-----------------------------------------------------------------------------
(* The markers on the map: C27, C28 (under SpecMap) *)

\* The stations of the current list whose marker creation ran to its end
\* in the last run, with the marker each of them should have now.
ExpectedMarkers ==
    { Marker(ChargerItems[k], view.run) :
        k \in { j \in DOMAIN ChargerItems : view.created[j] = "added" } }

\* C27: after every completed run of renderChargersOnMap on an initialised
\* map, the markers on the map are exactly those of the stations of the
\* current list whose creation did not fail, with the colour and the popup
\* status of the current slot counts; none of an earlier run remains.
C27_MarkersMatchList ==
    (view.map /\ view.run > 0 /\ view.returned = "true")
        => /\ view.layers = ExpectedMarkers
           /\ MarkersOf(view.markers) = view.layers

\* C28: renderChargersOnMap never ends with an exception of the view
\* fitting: with markers it asks for a fit to the bounds of all of them
\* with padding 0.1 and maxZoom 15, without markers it sets the default
\* view, and when the bounds or the fit throw it sets the default view.
C28_FitNeverThrows ==
    /\ view.returned # "threw"
    /\ (view.map /\ view.run > 0) =>
          view.fit = IF view.markers = <<>> \/ view.fitThrew
                     THEN [kind |-> "setView", over |-> {},
                           centre |-> <<"51.505", "-0.09">>,
                           pad |-> None, zoom |-> 13]
                     ELSE [kind |-> "fitBounds",
                           over |-> MarkersOf(view.markers),
                           centre |-> <<>>, pad |-> "0.1", zoom |-> 15]

\* A run with markers whose fit threw, after a run whose fit succeeded.
C28_Witness ==
    /\ view.run > 1
    /\ view.markers # <<>>
    /\ view.fitThrew
    /\ view.returned = "true"
    /\ view.fit = DefaultView

-----------------------------------------------------------------------------
(* Overlapping station loads: C30 (under SpecOverlap) *)

\* What a marker shows, whichever run made it.
MarkerFaces(ms) ==
    { [id |-> m.id, colour |-> m.colour, popup |-> m.popup] : m \in ms }

\* Two executions have finished, the second of which began while the first
\* was waiting for its response.
BothFinished ==
    /\ Len(hist) = 2
    /\ hist[2].overlapped
    /\ hist[1].finished
    /\ hist[2].finished

\* C30: once two overlapping executions of loadChargers have both finished,
\* the station list, the markers on the map and the sidebar cards are those
\* of the request issued last, in whichever order the responses arrived.
C30_LatestRequestWins ==
    BothFinished
        => /\ ChargerItems = hist[2].data
           /\ MarkerFaces(view.layers)
                = MarkerFaces(AddedToMap(hist[2].data,
                                         [k \in DOMAIN hist[2].data |->
                                             "added"], 0))
           /\ view.cards = renderChargersList(hist[2].data)

=============================================================================
